---- MODULE Spec2Model ----
(***************************************************************************)
(* Farm-to-market route optimizer (qwertyAnderson/F2R).                    *)
(*                                                                         *)
(* The module models three parts of the repository:                        *)
(*   - RouteService (services/route_service.py): the waypoint graph, the   *)
(*     Dijkstra solver and the node-path-to-coordinates mapping;           *)
(*   - the weather scoring of app_clean.py and the risk classification of  *)
(*     services/weather_service.py;                                        *)
(*   - the route ranking and the sidebar handlers of app_clean.py.         *)
(*                                                                         *)
(* Abstractions.  A coordinate is a position 0..MaxCoord on a line of      *)
(* equally spaced points and the haversine distance of two coordinates is  *)
(* the number of steps between them (symmetric, zero exactly on equal      *)
(* points, additive along the line).  Node "node_i" is the number i.       *)
(* A Python exception is the field `raised` of a call's outcome.           *)
(***************************************************************************)
EXTENDS Integers, Sequences, FiniteSets, TLC

\* Waypoints lie on positions 0..MaxCoord.
MaxCoord == 1
\* Waypoint sequences have 0..MaxLen points.
MaxLen == 3
\* Candidate durations are 0..MaxDur minutes.
MaxDur == 2
\* Candidate lists passed to the ranking have 0..MaxRoutes candidates.
MaxRoutes == 2
\* A routing provider answers with 0..MaxAlt routes.
MaxAlt == 2

\* How often a session calculates routes (st.session_state.map_counter).
MaxMapCounter == 2

VARIABLES
    graph,          \* RouteService.graph
    route_coords,   \* the waypoints last passed to create_graph_from_coords
    last,           \* the last call on the RouteService and what it returned
    observation,    \* a weather observation of the forecast provider
    scored,         \* calculate_weather_safety_score's result for it
    risk,           \* _is_weather_risky's result for it
    routes_in,      \* the candidate list passed to prioritize_routes_by_weather
    weather_at,     \* the forecast provider's answer at each coordinate
    ranked,         \* what prioritize_routes_by_weather returned for routes_in
    session_routes, \* app_clean: st.session_state.routes
    weather_checked, \* app_clean: st.session_state.weather_checked
    sidebar,        \* app_clean: what the last handler reported in the sidebar
    map_in,         \* MapService: the arguments of get_route and what the providers answer
    map_out,        \* MapService: what get_route returned for map_in
    road_in,        \* app_clean: the arguments of get_real_road_route and the providers' answers
    road_out,       \* app_clean: what get_real_road_route returned for road_in
    callers,        \* app_new: where each session using the shared RouteService stands
    crop_in,        \* a crop type with the routes and the distance it is evaluated for
    crop_out,       \* what the crop evaluation last called returned for crop_in
    eval_in,        \* WeatherService: the provider's answers to the three lookups of a route
    eval_out,       \* WeatherService: what evaluate_route_weather returned for eval_in
    session_state,  \* app_new: st.session_state
    last_action     \* app_new: the handler that ran last and what its services answered

routeVars == <<graph, route_coords, last>>

weatherVars == <<observation, scored, risk>>

rankVars == <<routes_in, weather_at, ranked>>

cleanVars == <<session_routes, weather_checked, sidebar>>

mapVars == <<map_in, map_out>>

roadVars == <<road_in, road_out>>

cropVars == <<crop_in, crop_out>>

evalVars == <<eval_in, eval_out>>

appVars == <<session_state, last_action>>

vars == <<routeVars, weatherVars, rankVars, cleanVars, mapVars, roadVars, callers, cropVars, evalVars, appVars>>

\* What each part of the program leaves alone.
notRoute == <<weatherVars, rankVars, cleanVars, mapVars, roadVars, callers, cropVars, evalVars, appVars>>

notWeather == <<routeVars, rankVars, cleanVars, mapVars, roadVars, callers, cropVars, evalVars, appVars>>

notRank == <<routeVars, weatherVars, cleanVars, mapVars, roadVars, callers, cropVars, evalVars, appVars>>

notClean == <<routeVars, weatherVars, rankVars, mapVars, roadVars, callers, cropVars, evalVars, appVars>>

notMap == <<routeVars, weatherVars, rankVars, cleanVars, roadVars, callers, cropVars, evalVars, appVars>>

notRoad == <<routeVars, weatherVars, rankVars, cleanVars, mapVars, callers, cropVars, evalVars, appVars>>

notShared == <<weatherVars, rankVars, cleanVars, mapVars, roadVars, cropVars, evalVars, appVars>>

notCrop == <<routeVars, weatherVars, rankVars, cleanVars, mapVars, roadVars, callers, evalVars, appVars>>

notEval == <<routeVars, weatherVars, rankVars, cleanVars, mapVars, roadVars, callers, cropVars, appVars>>

notApp == <<routeVars, weatherVars, rankVars, cleanVars, mapVars, roadVars, callers, cropVars, evalVars>>

Coord == 0 .. MaxCoord

\* Sequences over S of length lo..hi.
SeqsOf(S, lo, hi) == UNION {[1 .. n -> S] : n \in lo .. hi}

Abs(x) == IF x < 0 THEN -x ELSE x

(***************************************************************************)
(* RouteService                                                            *)
(***************************************************************************)

\* nx.Graph(): no nodes, no edges.
EmptyGraph == [nodes |-> {}, edges |-> {}]

\* RouteService._calculate_distance: great-circle distance of two coordinates.
_calculate_distance(coord1, coord2) == Abs(coord2 - coord1)

\* Graph.add_edge(u, v, weight=, coords_a=, coords_b=): both nodes are added;
\* an undirected edge {u, v} holds one attribute dictionary, replaced when the
\* edge is added again.
add_edge(G, u, v, weight, coords_a, coords_b) ==
    [nodes |-> G.nodes \cup {u, v},
     edges |-> {e \in G.edges : {e.u, e.v} # {u, v}}
               \cup {[u |-> u, v |-> v, weight |-> weight,
                      coords_a |-> coords_a, coords_b |-> coords_b]}]

\* Graph.has_node
has_node(G, n) == n \in G.nodes

\* Graph.get_edge_data(u, v): the attribute dictionaries of the edge {u, v};
\* the empty set is None.
get_edge_data(G, u, v) == {e \in G.edges : {e.u, e.v} = {u, v}}

\* The loop of create_graph_from_coords: one edge node_i -- node_{i+1} per
\* consecutive pair of waypoints (waypoint i is coords[i + 1] here).
RECURSIVE create_graph_loop(_, _, _)
create_graph_loop(G, coords, i) ==
    IF i >= Len(coords) - 1 THEN G
    ELSE create_graph_loop(
            add_edge(G, i, i + 1,
                     _calculate_distance(coords[i + 1], coords[i + 2]),
                     coords[i + 1], coords[i + 2]),
            coords, i + 1)

\* create_graph_from_coords naming each node after its coordinate instead of
\* its index: equal waypoints become one node.
RECURSIVE create_graph_by_coord_loop(_, _, _)
create_graph_by_coord_loop(G, coords, i) ==
    IF i >= Len(coords) - 1 THEN G
    ELSE create_graph_by_coord_loop(
            add_edge(G, coords[i + 1], coords[i + 2],
                     _calculate_distance(coords[i + 1], coords[i + 2]),
                     coords[i + 1], coords[i + 2]),
            coords, i + 1)

create_graph_by_coordinate(coords) ==
    [raised |-> "none", G |-> create_graph_by_coord_loop(EmptyGraph, coords, 0)]

\* RouteService.create_graph_from_coords: the graph it builds and stores.
create_graph_from_coords(coords) ==
    [raised |-> "none", G |-> create_graph_loop(EmptyGraph, coords, 0)]

\* The weight of the edge {u, v} of G.
EdgeWeight(G, u, v) == (CHOOSE e \in get_edge_data(G, u, v) : TRUE).weight

\* The neighbours of v in G.
Neighbors(G, v) == {u \in G.nodes : u # v /\ get_edge_data(G, u, v) # {}}

\* networkx _dijkstra_multisource: `dist` holds the final distances, `seen`
\* the tentative ones, `paths` the path to every seen node.  The fringe node
\* of least tentative distance is made final and its edges are relaxed, until
\* the target is final or the fringe is empty.  (Equal distances leave the
\* heap in insertion order; here the least node number leaves first.)
RECURSIVE dijkstra_loop(_, _, _, _, _)
dijkstra_loop(G, target, dist, seen, paths) ==
    LET fringe == DOMAIN seen \ DOMAIN dist IN
    IF fringe = {} \/ target \in DOMAIN dist
    THEN [dist |-> dist, paths |-> paths]
    ELSE
      LET d == CHOOSE m \in {seen[x] : x \in fringe} :
                    \A x \in fringe : m <= seen[x]
          v == CHOOSE x \in fringe :
                    seen[x] = d /\ \A y \in fringe : seen[y] = d => x <= y
          dist2 == (v :> d) @@ dist
          upd == {u \in Neighbors(G, v) \ DOMAIN dist2 :
                    u \notin DOMAIN seen \/ d + EdgeWeight(G, v, u) < seen[u]}
          seen2 == [x \in DOMAIN seen \cup upd |->
                       IF x \in upd THEN d + EdgeWeight(G, v, x) ELSE seen[x]]
          paths2 == [x \in DOMAIN paths \cup upd |->
                       IF x \in upd THEN Append(paths[v], x) ELSE paths[x]]
      IN dijkstra_loop(G, target, dist2, seen2, paths2)

\* nx.dijkstra_path and nx.dijkstra_path_length: NodeNotFound when the source
\* is no node, NetworkXNoPath when the target is not reached.
dijkstra_path(G, source, target) ==
    IF ~has_node(G, source)
    THEN [exc |-> "NodeNotFound", path |-> <<>>, length |-> 0]
    ELSE
      LET r == dijkstra_loop(G, target, <<>>, (source :> 0),
                             (source :> <<source>>))
      IN IF target \in DOMAIN r.dist
         THEN [exc |-> "none", path |-> r.paths[target],
               length |-> r.dist[target]]
         ELSE [exc |-> "NetworkXNoPath", path |-> <<>>, length |-> 0]

\* find_shortest_path with its except clauses removed.
find_shortest_path_unguarded(G, start_node, end_node) ==
    LET r == dijkstra_path(G, start_node, end_node)
    IN [raised |-> r.exc, path |-> r.path, cost |-> r.length]

\* find_shortest_path searching from the lower to the higher of the two nodes,
\* whichever of them is the start.
find_shortest_path_from_lower(G, start_node, end_node) ==
    LET lower == IF start_node <= end_node THEN start_node ELSE end_node
        higher == IF start_node <= end_node THEN end_node ELSE start_node
        r == dijkstra_path(G, lower, higher)
    IN IF ~has_node(G, start_node) \/ ~has_node(G, end_node) \/ r.exc # "none"
       THEN [raised |-> "none", path |-> <<>>, cost |-> 0]
       ELSE [raised |-> "none", path |-> r.path, cost |-> r.length]

\* find_shortest_path following the fewest edges (the weight is ignored).
find_shortest_path_hops(G, start_node, end_node) ==
    LET r == dijkstra_path(G, start_node, end_node)
    IN [raised |-> "none", path |-> r.path,
        cost |-> IF r.path = <<>> THEN 0 ELSE Len(r.path) - 1]

\* RouteService.find_shortest_path on the graph G the service holds.
find_shortest_path(G, start_node, end_node) ==
    IF ~has_node(G, start_node) \/ ~has_node(G, end_node)
    THEN [raised |-> "none", path |-> <<>>, cost |-> 0]
    ELSE
      LET r == dijkstra_path(G, start_node, end_node)
      IN IF r.exc = "NetworkXNoPath"
         THEN [raised |-> "none", path |-> <<>>, cost |-> 0]
         ELSE IF r.exc # "none"
         THEN [raised |-> "none", path |-> <<>>, cost |-> 0]
         ELSE [raised |-> "none", path |-> r.path, cost |-> r.length]

\* The loop of get_path_coordinates: coords_a of every edge of the path.
RECURSIVE path_coords_loop(_, _, _)
path_coords_loop(G, node_path, i) ==
    IF i > Len(node_path) - 1 THEN <<>>
    ELSE
      LET edge_data == get_edge_data(G, node_path[i], node_path[i + 1])
          rest == path_coords_loop(G, node_path, i + 1)
      IN IF edge_data # {}
         THEN <<(CHOOSE e \in edge_data : TRUE).coords_a>> \o rest
         ELSE rest

\* RouteService.get_path_coordinates: coords_a per edge, then coords_b of the
\* edge node_path[-2] -- node_path[-1]; node_path[-2] of a one-node path is an
\* IndexError.
get_path_coordinates(G, node_path) ==
    LET coords == path_coords_loop(G, node_path, 1) IN
    IF node_path = <<>> THEN [raised |-> "none", coords |-> coords]
    ELSE IF Len(node_path) < 2 THEN [raised |-> "IndexError", coords |-> <<>>]
    ELSE
      LET last_edge == get_edge_data(G, node_path[Len(node_path) - 1],
                                     node_path[Len(node_path)])
      IN IF last_edge # {}
         THEN [raised |-> "none",
               coords |-> Append(coords, (CHOOSE e \in last_edge : TRUE).coords_b)]
         ELSE [raised |-> "none", coords |-> coords]

(***************************************************************************)
(* Weather: the safety score (app_clean.py) and the risk flag              *)
(* (services/weather_service.py) of one observation.                       *)
(***************************************************************************)

\* The values an observation's fields take: each threshold the code compares
\* with, its neighbour above or below, and one value outside the WMO codes.
PrecipitationValues == {0, 2, 3, 5, 6, 10, 11}

WindValues == {15, 16, 25, 26, 35, 36, 40, 41}

TemperatureValues == {-1, 0, 4, 5, 9, 10, 30, 31, 35, 36, 40, 41}

CodeValues == {0, 44, 45, 48, 49, 50, 51, 61, 67, 68, 70, 71, 86, 87, 94, 95, 99, 100}

RainValues == {5, 6}

Observations ==
    [temperature : TemperatureValues, precipitation : PrecipitationValues,
     rain : RainValues, weather_code : CodeValues, wind_speed : WindValues]

\* WeatherService._default_weather without its is_risky entry.
DefaultObservation ==
    [temperature |-> 25, precipitation |-> 0, rain |-> 0, weather_code |-> 0,
     wind_speed |-> 10]

\* The precipitation penalty of calculate_weather_safety_score.
precipitation_penalty(score, weather_data) ==
    IF weather_data.precipitation > 10 THEN score - 40
    ELSE IF weather_data.precipitation > 5 THEN score - 25
    ELSE IF weather_data.precipitation > 2 THEN score - 10
    ELSE score

\* The wind speed penalty of calculate_weather_safety_score.
wind_penalty(score, weather_data) ==
    IF weather_data.wind_speed > 35 THEN score - 30
    ELSE IF weather_data.wind_speed > 25 THEN score - 20
    ELSE IF weather_data.wind_speed > 15 THEN score - 10
    ELSE score

\* The temperature penalty with its brackets in reverse order.
temperature_penalty_reversed(score, weather_data) ==
    LET temp == weather_data.temperature IN
    IF temp < 0 \/ temp > 40 THEN score - 10
    ELSE IF temp < 5 \/ temp > 35 THEN score - 20
    ELSE IF temp < 10 \/ temp > 30 THEN score - 30
    ELSE score

\* The temperature penalty of calculate_weather_safety_score.
temperature_penalty(score, weather_data) ==
    LET temp == weather_data.temperature IN
    IF temp < 0 \/ temp > 40 THEN score - 30
    ELSE IF temp < 5 \/ temp > 35 THEN score - 20
    ELSE IF temp < 10 \/ temp > 30 THEN score - 10
    ELSE score

\* The precipitation penalty with `if` in place of `elif`: every bracket the
\* value exceeds is deducted.
precipitation_penalty_cumulative(score, weather_data) ==
    score - (IF weather_data.precipitation > 10 THEN 40 ELSE 0)
          - (IF weather_data.precipitation > 5 THEN 25 ELSE 0)
          - (IF weather_data.precipitation > 2 THEN 10 ELSE 0)

\* calculate_weather_safety_score with the cumulative precipitation penalty.
calculate_weather_safety_score_cumulative(weather_data) ==
    LET score == temperature_penalty(
                    wind_penalty(
                        precipitation_penalty_cumulative(100, weather_data),
                        weather_data),
                    weather_data)
    IN IF score > 0 THEN score ELSE 0

\* calculate_weather_safety_score (its route argument is not read).
calculate_weather_safety_score(weather_data) ==
    LET score == temperature_penalty(
                    wind_penalty(
                        precipitation_penalty(100, weather_data),
                        weather_data),
                    weather_data)
    IN IF score > 0 THEN score ELSE 0

\* The `current` dictionary of the forecast response _is_weather_risky reads.
Current(obs) ==
    [weathercode |-> obs.weather_code, precipitation |-> obs.precipitation,
     rain |-> obs.rain, windspeed_10m |-> obs.wind_speed]

\* A risk flag derived from the safety score: risky when the precipitation and
\* wind penalties of the score leave less than 100.
_is_weather_risky_from_score(weather_data) ==
    wind_penalty(precipitation_penalty(100, [precipitation |-> weather_data.precipitation]),
                 [wind_speed |-> weather_data.windspeed_10m]) < 100

\* _is_weather_risky without its `rain > 5` test.
_is_weather_risky_no_rain(weather_data) ==
    LET code == weather_data.weathercode IN
    IF code >= 45 /\ code <= 48 THEN TRUE
    ELSE IF code >= 51 /\ code <= 67 THEN TRUE
    ELSE IF code >= 71 /\ code <= 86 THEN TRUE
    ELSE IF code >= 95 THEN TRUE
    ELSE IF weather_data.precipitation > 5 THEN TRUE
    ELSE IF weather_data.windspeed_10m > 40 THEN TRUE
    ELSE FALSE

\* WeatherService._is_weather_risky
_is_weather_risky(weather_data) ==
    LET code == weather_data.weathercode
        precipitation == weather_data.precipitation
        rain == weather_data.rain
        wind_speed == weather_data.windspeed_10m
    IN IF code >= 45 /\ code <= 48 THEN TRUE
       ELSE IF code >= 51 /\ code <= 67 THEN TRUE
       ELSE IF code >= 71 /\ code <= 86 THEN TRUE
       ELSE IF code >= 95 THEN TRUE
       ELSE IF precipitation > 5 THEN TRUE
       ELSE IF rain > 5 THEN TRUE
       ELSE IF wind_speed > 40 THEN TRUE
       ELSE FALSE

\* No observation is being evaluated.
WeatherIdle ==
    /\ observation = DefaultObservation
    /\ scored = [called |-> FALSE, score |-> 0, before |-> <<>>]
    /\ risk = [called |-> FALSE, is_risky |-> FALSE]

\* The provider reports some observation.
WeatherInit ==
    /\ observation \in Observations
    /\ scored = [called |-> FALSE, score |-> 0, before |-> <<>>]
    /\ risk = [called |-> FALSE, is_risky |-> FALSE]

\* The observation is scored.
CalculateWeatherSafetyScore ==
    /\ scored' = [called |-> TRUE,
                  score |-> calculate_weather_safety_score(observation),
                  before |-> <<>>]
    /\ UNCHANGED <<observation, risk, notWeather>>

\* The deviation of a temperature from the comfort band of 10 to 30 degrees.
Deviation(temp) ==
    IF temp < 10 THEN 10 - temp ELSE IF temp > 30 THEN temp - 30 ELSE 0

\* The observations that differ from obs in one of precipitation, wind speed
\* and temperature, that one being higher (the temperature further from the
\* comfort band).
Worse(obs) ==
    {[obs EXCEPT !.precipitation = p] :
        p \in {x \in PrecipitationValues : x > obs.precipitation}}
    \cup {[obs EXCEPT !.wind_speed = w] :
            w \in {x \in WindValues : x > obs.wind_speed}}
    \cup {[obs EXCEPT !.temperature = t] :
            t \in {x \in TemperatureValues : Deviation(x) > Deviation(obs.temperature)}}

\* The provider reports a worse observation than the one scored, and it is
\* scored; `before` keeps the score of the observation it replaces.
WeatherWorsens ==
    /\ scored.called
    /\ \E worse \in Worse(observation) :
          /\ observation' = worse
          /\ scored' = [called |-> TRUE,
                        score |-> calculate_weather_safety_score(worse),
                        before |-> <<scored.score>>]
    /\ risk' = [called |-> FALSE, is_risky |-> FALSE]
    /\ UNCHANGED notWeather

\* The observation is classified.
IsWeatherRisky ==
    /\ risk' = [called |-> TRUE, is_risky |-> _is_weather_risky(Current(observation))]
    /\ UNCHANGED <<observation, scored, notWeather>>

(***************************************************************************)
(* Ranking (app_clean.py).  A candidate route is a dictionary; an entry   *)
(* that may be absent is a sequence, empty when the key is absent.        *)
(***************************************************************************)

\* A candidate route before any weather evaluation.
Candidate(name, coordinates, distance, duration, color, method) ==
    [name |-> name, coordinates |-> coordinates, distance |-> distance,
     duration |-> duration, color |-> color, method |-> method,
     weather_safety_score |-> <<>>, weather_data |-> <<>>]

\* The `current` entries the forecast provider can answer with.
RankObs ==
    {[temperature_2m |-> 22, precipitation |-> 3, wind_speed_10m |-> 5,
      weather_code |-> 51],
     [temperature_2m |-> 36, precipitation |-> 11, wind_speed_10m |-> 36,
      weather_code |-> 95]}

\* The provider's responses: an answer, or a failure.
WeatherResponses ==
    {[status |-> 200, current |-> o] : o \in RankObs}
        \cup {[status |-> 500, current |-> o] : o \in {CHOOSE x \in RankObs : TRUE}}

\* get_weather_data: the provider's answer with its entries renamed, or the
\* fallback weather when the request fails.
get_weather_data(lat_lon, responses) ==
    LET response == responses[lat_lon] IN
    IF response.status = 200
    THEN [temperature |-> response.current.temperature_2m,
          precipitation |-> response.current.precipitation,
          wind_speed |-> response.current.wind_speed_10m,
          weather_code |-> response.current.weather_code]
    ELSE [temperature |-> 22, precipitation |-> 0, wind_speed |-> 5,
          weather_code |-> 1]

\* One pass of the loop writing to the route itself instead of a copy.
score_route_in_place(route, weather) ==
    LET written == [route EXCEPT
                      !.weather_safety_score = <<calculate_weather_safety_score(weather)>>,
                      !.weather_data = <<weather>>]
    IN [route |-> written, route_copy |-> written]

\* One pass of the loop: route.copy() is a new dictionary with the route's
\* entries, the score and the weather are written to the copy, and the route
\* passed in keeps its entries.
score_route(route, weather) ==
    LET route_copy == route
        safety_score == calculate_weather_safety_score(weather)
    IN [route |-> route,
        route_copy |-> [route_copy EXCEPT !.weather_safety_score = <<safety_score>>,
                                          !.weather_data = <<weather>>]]

\* The loop of prioritize_routes_by_weather from the i-th route on: `value` is
\* the list of scored copies, `routes` what the routes passed in hold after
\* it; route['coordinates'][0] of an empty list is an IndexError.
RECURSIVE score_routes(_, _, _)
score_routes(routes, responses, i) ==
    IF i > Len(routes) THEN [raised |-> "none", value |-> <<>>, routes |-> <<>>]
    ELSE IF routes[i].coordinates = <<>>
    THEN [raised |-> "IndexError", value |-> <<>>,
          routes |-> SubSeq(routes, i, Len(routes))]
    ELSE
      LET weather == get_weather_data(routes[i].coordinates[1], responses)
          scored_route == score_route(routes[i], weather)
          rest == score_routes(routes, responses, i + 1)
      IN [raised |-> rest.raised,
          value |-> IF rest.raised # "none" THEN <<>>
                    ELSE <<scored_route.route_copy>> \o rest.value,
          routes |-> <<scored_route.route>> \o rest.routes]

\* The sort keys, compared as Python compares tuples: "weather" is the key
\* (-weather_safety_score, duration), "duration" the duration alone.
KeyLessEq(key, a, b) ==
    IF key = "weather"
    THEN \/ a.weather_safety_score[1] > b.weather_safety_score[1]
         \/ /\ a.weather_safety_score[1] = b.weather_safety_score[1]
            /\ a.duration[1] <= b.duration[1]
    ELSE a.duration[1] <= b.duration[1]

\* A sort that puts an element in front of the elements with an equal key.
RECURSIVE sort_insert_before_ties(_, _, _)
sort_insert_before_ties(sorted, x, key) ==
    IF sorted = <<>> THEN <<x>>
    ELSE IF KeyLessEq(key, Head(sorted), x) /\ ~KeyLessEq(key, x, Head(sorted))
    THEN <<Head(sorted)>> \o sort_insert_before_ties(Tail(sorted), x, key)
    ELSE <<x>> \o sorted

\* list.sort is stable: an element goes behind every element whose key is not
\* greater than its own.
RECURSIVE sort_insert(_, _, _)
sort_insert(sorted, x, key) ==
    IF sorted = <<>> THEN <<x>>
    ELSE IF KeyLessEq(key, Head(sorted), x)
    THEN <<Head(sorted)>> \o sort_insert(Tail(sorted), x, key)
    ELSE <<x>> \o sorted

RECURSIVE sort_by(_, _, _)
sort_by(list, n, key) ==
    IF n = 0 THEN <<>>
    ELSE sort_insert(sort_by(list, n - 1, key), list[n], key)

\* scored_routes.sort(key=...): r['duration'] of a route without a duration is
\* a KeyError.
sort_scored(scored_routes, key) ==
    IF \E i \in DOMAIN scored_routes : scored_routes[i].duration = <<>>
    THEN [raised |-> "KeyError", value |-> <<>>]
    ELSE [raised |-> "none",
          value |-> sort_by(scored_routes, Len(scored_routes), key)]

\* prioritize_routes_by_weather sorting by duration alone.
prioritize_routes_by_duration(routes, responses) ==
    LET scored_routes == score_routes(routes, responses, 1)
        sorted == sort_scored(scored_routes.value, "duration")
    IN IF scored_routes.raised # "none" THEN scored_routes
       ELSE [raised |-> sorted.raised, value |-> sorted.value,
             routes |-> scored_routes.routes]

\* prioritize_routes_by_weather: `value` is what it returns, `routes` what the
\* list passed in holds after the call (the sort is applied to the new list).
prioritize_routes_by_weather(routes, responses) ==
    LET scored_routes == score_routes(routes, responses, 1)
        sorted == sort_scored(scored_routes.value, "weather")
    IN IF scored_routes.raised # "none" THEN scored_routes
       ELSE [raised |-> sorted.raised, value |-> sorted.value,
             routes |-> scored_routes.routes]

\* The positions the candidates of a ranking start at.
RankCoords == {0, MaxCoord}

\* The candidates a caller can pass: well-formed ones, one without
\* coordinates and one without a duration.
CandidateShapes ==
    {[coordinates |-> <<x>>, duration |-> <<d>>] : x \in RankCoords, d \in 0 .. MaxDur}
    \cup {[coordinates |-> <<>>, duration |-> <<0>>],
          [coordinates |-> <<0>>, duration |-> <<>>]}

\* The candidate lists a caller can pass: every candidate has a name (its place
\* in the list), a coordinate list that may be empty and a duration that may be
\* absent.
CandidateLists ==
    UNION {{[i \in 1 .. n |->
                Candidate(<<"Route", i, "">>, c[i].coordinates, 1, c[i].duration,
                          "red", "input")]
            : c \in [1 .. n -> CandidateShapes]}
           : n \in 0 .. MaxRoutes}

\* No ranking is asked for.
RankIdle ==
    /\ routes_in = <<>>
    /\ weather_at = [c \in Coord |-> CHOOSE r \in WeatherResponses : r.status # 200]
    /\ ranked = [called |-> FALSE, raised |-> "none", value |-> <<>>]

\* A caller holds some candidate list, the provider some weather.
RankInit ==
    /\ routes_in \in CandidateLists
    /\ weather_at \in [RankCoords -> WeatherResponses]
    /\ ranked = [called |-> FALSE, raised |-> "none", value |-> <<>>]

\* The caller has its candidates ranked.
Prioritize ==
    /\ LET r == prioritize_routes_by_weather(routes_in, weather_at) IN
       /\ ranked' = [called |-> TRUE, raised |-> r.raised, value |-> r.value]
       /\ routes_in' = r.routes
    /\ UNCHANGED <<weather_at, notRank>>

\* The caller passes the ranked list it got back to the ranking once more, the
\* weather being what it was.
PrioritizeAgain ==
    /\ ranked.called
    /\ ranked.raised = "none"
    /\ LET r == prioritize_routes_by_weather(ranked.value, weather_at) IN
       /\ ranked' = [called |-> TRUE, raised |-> r.raised, value |-> r.value]
       /\ routes_in' = r.routes
    /\ UNCHANGED <<weather_at, notRank>>

(***************************************************************************)
(* app_clean.py: the routes of a session.  A candidate's distance is in   *)
(* hundredths of a kilometre and its duration in 1/100000 of a minute, so  *)
(* that the code's factors 1.05, 1.25 and 1.714 stay whole numbers.        *)
(***************************************************************************)

\* DEHRADUN_LOCATIONS: a location is named by its position; the positions of
\* Coord lie inside the Dehradun bounding box, MaxCoord + 1 ("Vikasnagar
\* Road") lies outside it.
DEHRADUN_LOCATIONS == {0, MaxCoord, MaxCoord + 1}

\* The bounding box test of get_real_road_route.
InDehradun(coords) == coords \in Coord

\* calculate_distance of app_clean.py (haversine), in kilometres.
calculate_distance(lat_lon1, lat_lon2) == Abs(lat_lon2 - lat_lon1)

\* create_highway_simulation and create_local_road_simulation: interpolated
\* points from the start to the end, kept here as the two end points.
create_highway_simulation(start_coords, end_coords) == <<start_coords, end_coords>>

create_local_road_simulation(start_coords, end_coords) == <<start_coords, end_coords>>

\* create_realistic_road_routes
create_realistic_road_routes(start_coords, end_coords) ==
    LET base_distance == calculate_distance(start_coords, end_coords) IN
    << Candidate(<<"Main Road", 1, "Fastest">>,
                 create_highway_simulation(start_coords, end_coords),
                 base_distance * 105, <<(base_distance * 105) * 1714>>,
                 "red", "Road Network Simulation"),
       Candidate(<<"Local Roads", 2, "Alternative">>,
                 create_local_road_simulation(start_coords, end_coords),
                 base_distance * 125, <<(base_distance * 125) * 1714>>,
                 "blue", "Road Network Simulation") >>

\* dict.get(key, default) of an entry that may be absent.
get(entry, default) == IF entry = <<>> THEN default ELSE entry[1]

\* decode_polyline: the points of a decodable polyline (taken as the line from
\* the start to the end), [] for one that cannot be decoded.
decode_polyline(geometry, start_coords, end_coords) ==
    IF geometry = "polyline" THEN <<start_coords, end_coords>> ELSE <<>>

\* The loop over data['routes'][:3] of get_real_road_route: a candidate per
\* route whose geometry is present and decodes to at least one point; i is
\* the index of enumerate().
RECURSIVE provider_routes(_, _, _, _, _, _)
provider_routes(data_routes, i, start_coords, end_coords, alt_label, method) ==
    IF i >= Len(data_routes) \/ i >= 3 THEN <<>>
    ELSE
      LET route == data_routes[i + 1]
          coords == decode_polyline(route.geometry, start_coords, end_coords)
          rest == provider_routes(data_routes, i + 1, start_coords, end_coords,
                                  alt_label, method)
      IN IF route.geometry # "" /\ coords # <<>>
         THEN << Candidate(
                    <<"Route", i + 1,
                      IF i = 0 THEN "Shortest Real Road" ELSE alt_label>>,
                    coords,
                    (get(route.distance, 0) * 100) \div 1000,
                    <<(get(route.duration, 0) * 100000) \div 60>>,
                    <<"red", "blue", "green">>[i + 1],
                    method) >> \o rest
         ELSE rest

\* One try block of get_real_road_route: the routes of a provider's response,
\* none when the request raises, the status is not 200 or no route is usable.
try_provider(response, start_coords, end_coords, alt_label, method) ==
    IF response.raises THEN <<>>
    ELSE IF response.status_code # 200 THEN <<>>
    ELSE provider_routes(response.routes, 0, start_coords, end_coords,
                         alt_label, method)

\* get_real_road_route without its OpenStreetMap block.
get_real_road_route_without_osrm(start_coords, end_coords, mappls, osrm) ==
    IF start_coords = <<>> \/ end_coords = <<>>
    THEN create_realistic_road_routes(0, 0)
    ELSE IF ~InDehradun(start_coords[1]) \/ ~InDehradun(end_coords[1])
    THEN create_realistic_road_routes(start_coords[1], end_coords[1])
    ELSE
      LET from_mappls == try_provider(mappls, start_coords[1], end_coords[1],
                                      "Alternative Real Road",
                                      "MapMyIndia Real Roads")
      IN IF from_mappls # <<>> THEN from_mappls
         ELSE create_realistic_road_routes(start_coords[1], end_coords[1])

\* get_real_road_route; a missing coordinate (None) is the empty sequence.
get_real_road_route(start_coords, end_coords, mappls, osrm) ==
    IF start_coords = <<>> \/ end_coords = <<>>
    THEN create_realistic_road_routes(0, 0)
    ELSE IF ~InDehradun(start_coords[1])
    THEN create_realistic_road_routes(start_coords[1], end_coords[1])
    ELSE IF ~InDehradun(end_coords[1])
    THEN create_realistic_road_routes(start_coords[1], end_coords[1])
    ELSE
      LET from_mappls == try_provider(mappls, start_coords[1], end_coords[1],
                                      "Alternative Real Road",
                                      "MapMyIndia Real Roads")
          from_osrm == try_provider(osrm, start_coords[1], end_coords[1],
                                    "Alternative Road",
                                    "OpenStreetMap Real Roads")
      IN IF from_mappls # <<>> THEN from_mappls
         ELSE IF from_osrm # <<>> THEN from_osrm
         ELSE create_realistic_road_routes(start_coords[1], end_coords[1])

\* The routes of a provider's response in a session: decodable routes of 1 or
\* 2 minutes and 1 km, or a route without geometry.
SessionRawRoutes ==
    {[geometry |-> "polyline", distance |-> <<1000>>, duration |-> <<60>>],
     [geometry |-> "polyline", distance |-> <<1000>>, duration |-> <<120>>],
     [geometry |-> "", distance |-> <<>>, duration |-> <<>>]}

\* A provider's responses in a session.
SessionResponses ==
    {[raises |-> FALSE, status_code |-> 200, routes |-> rs] :
        rs \in SeqsOf(SessionRawRoutes, 0, MaxAlt)}
    \cup {[raises |-> TRUE, status_code |-> 200, routes |-> <<>>],
          [raises |-> FALSE, status_code |-> 500, routes |-> <<>>]}

\* The responses one call of get_real_road_route reads: none outside the
\* bounding box, OSRM's only when MapMyIndia gave no usable route.  A response
\* that is not read is written as the failed request.
ResponsesRead(start_coords, end_coords) ==
    LET not_read == [raises |-> TRUE, status_code |-> 200, routes |-> <<>>] IN
    IF ~InDehradun(start_coords) \/ ~InDehradun(end_coords)
    THEN {<<not_read, not_read>>}
    ELSE {<<mappls, not_read>> : mappls \in
            {r \in SessionResponses :
                try_provider(r, start_coords, end_coords, "", "") # <<>>}}
         \cup ({r \in SessionResponses :
                    try_provider(r, start_coords, end_coords, "", "") = <<>>}
               \X SessionResponses)

\* The weather risks the reroute handler lists for the first route's weather.
risk_factors(start_weather) ==
    (IF start_weather.precipitation > 5 THEN {"Heavy precipitation"} ELSE {})
    \cup (IF start_weather.wind_speed > 25 THEN {"Strong winds"} ELSE {})
    \cup (IF start_weather.temperature < 5 \/ start_weather.temperature > 35
          THEN {"Extreme temperature"} ELSE {})

\* main(): the session state of a new session.
CleanIdle ==
    /\ session_routes = <<>>
    /\ weather_checked = FALSE
    /\ sidebar = ""

\* The "Get Shortest Path" button.
GetShortestPath ==
    \E start_location \in DEHRADUN_LOCATIONS, end_location \in DEHRADUN_LOCATIONS :
        IF start_location # end_location
        THEN \E read \in ResponsesRead(start_location, end_location) :
                /\ session_routes' = get_real_road_route(<<start_location>>,
                                        <<end_location>>, read[1], read[2])
                /\ weather_checked' = FALSE
                /\ sidebar' = "Found route(s)!"
                /\ UNCHANGED notClean
        ELSE /\ sidebar' = "Please select different locations!"
             /\ UNCHANGED <<session_routes, weather_checked, notClean>>

\* The "Reroute Based on Weather" button: with or without a weather risk the
\* session's routes become prioritize_routes_by_weather's result.
RerouteBasedOnWeather ==
    IF session_routes # <<>>
    THEN \E responses \in [{session_routes[i].coordinates[1] :
                                i \in DOMAIN session_routes} -> WeatherResponses] :
            LET start_weather == get_weather_data(session_routes[1].coordinates[1], responses)
                reprioritized == prioritize_routes_by_weather(session_routes, responses)
            IN /\ weather_checked' = TRUE
               /\ session_routes' = (IF reprioritized.raised = "none"
                             THEN reprioritized.value ELSE session_routes)
               /\ sidebar' = (IF reprioritized.raised # "none" THEN reprioritized.raised
                              ELSE IF risk_factors(start_weather) # {}
                              THEN "Weather risks detected"
                              ELSE "Weather conditions are favorable for travel!")
               /\ UNCHANGED notClean
    ELSE /\ sidebar' = "Please calculate routes first!"
         /\ UNCHANGED <<session_routes, weather_checked, notClean>>

\* The routes of a provider's answer to get_real_road_route: the geometry may
\* be missing or not decodable, the distance and the duration may be missing.
RoadRawRoutes ==
    [geometry : {"polyline"}, distance : {<<>>, <<1000>>}, duration : {<<>>, <<60>>}]
    \cup {[geometry |-> g, distance |-> <<1000>>, duration |-> <<60>>] :
            g \in {"", "undecodable"}}

\* Answers with more routes than the three that data['routes'][:3] keeps.
LongRoutes ==
    LET road == [geometry |-> "polyline", distance |-> <<1000>>, duration |-> <<60>>]
        blank == [geometry |-> "undecodable", distance |-> <<1000>>, duration |-> <<60>>]
    IN {<<road, road, road, road>>, <<blank, road, road, road>>,
        <<blank, blank, blank, road>>}

\* A provider's answers to get_real_road_route.
RoadResponses ==
    {[raises |-> FALSE, status_code |-> 200, routes |-> rs] :
        rs \in SeqsOf(RoadRawRoutes, 0, MaxAlt) \cup LongRoutes}
    \cup {[raises |-> TRUE, status_code |-> 200, routes |-> <<>>],
          [raises |-> FALSE, status_code |-> 500, routes |-> <<>>]}

\* The arguments of a call of get_real_road_route (a coordinate may be None)
\* with the answers the call reads: none without a coordinate or outside the
\* bounding box, OSRM's only when MapMyIndia gave no usable route.
RoadInputs ==
    LET not_read == [raises |-> TRUE, status_code |-> 200, routes |-> <<>>]
        optional == {<<>>} \cup {<<c>> : c \in DEHRADUN_LOCATIONS}
        asked(st, en) == st # <<>> /\ en # <<>> /\ InDehradun(st[1]) /\ InDehradun(en[1])
        usable(r, st, en) == try_provider(r, st[1], en[1], "", "") # <<>>
    IN UNION {
         IF ~asked(st, en)
         THEN {[start_coords |-> st, end_coords |-> en,
                mappls |-> not_read, osrm |-> not_read]}
         ELSE {[start_coords |-> st, end_coords |-> en, mappls |-> m, osrm |-> not_read] :
                    m \in {r \in RoadResponses : usable(r, st, en)}}
              \cup {[start_coords |-> st, end_coords |-> en, mappls |-> m, osrm |-> o] :
                    m \in {r \in RoadResponses : ~usable(r, st, en)},
                    o \in RoadResponses}
         : st \in optional, en \in optional}

\* get_real_road_route is not called.
RoadIdle ==
    /\ road_in = [start_coords |-> <<>>, end_coords |-> <<>>,
                  mappls |-> [raises |-> TRUE, status_code |-> 200, routes |-> <<>>],
                  osrm |-> [raises |-> TRUE, status_code |-> 200, routes |-> <<>>]]
    /\ road_out = [called |-> FALSE, value |-> <<>>]

\* A caller is about to ask for the routes between two coordinates.
RoadInit ==
    /\ road_in \in RoadInputs
    /\ road_out = [called |-> FALSE, value |-> <<>>]

\* get_real_road_route
GetRealRoadRoute ==
    /\ road_out' = [called |-> TRUE,
                    value |-> get_real_road_route(road_in.start_coords, road_in.end_coords,
                                                  road_in.mappls, road_in.osrm)]
    /\ UNCHANGED <<road_in, notRoad>>

(***************************************************************************)
(* MapService (services/map_service.py).  A point of a route is given in   *)
(* 1/num_points of a position, a distance in hundredths of a kilometre and *)
(* a duration in hundredths of a minute.                                   *)
(***************************************************************************)

\* _get_direct_route draws num_points segments.
num_points == 20

\* A position as a point of a route.
Point(coords) == coords * num_points

\* _decode_polyline: the points of the encoded line, none for the empty string.
_decode_polyline(polyline_str, start_coords, end_coords) ==
    IF polyline_str = "" THEN <<>>
    ELSE <<Point(start_coords), Point(end_coords)>>

\* _get_mappls_route: the first route of the answer; None (<<>>) when the
\* request raises, the status is not 200, there is no route, or reading the
\* route raises (a key is missing, coords[0] of no points).
_get_mappls_route(response, start_coords, end_coords) ==
    IF response.raises THEN <<>>
    ELSE IF response.status_code # 200 THEN <<>>
    ELSE IF Len(response.routes) = 0 THEN <<>>
    ELSE
      LET route == response.routes[1] IN
      IF route.geometry = <<>> THEN <<>>
      ELSE
        LET coords == _decode_polyline(route.geometry[1], start_coords, end_coords) IN
        IF coords = <<>> THEN <<>>
        ELSE IF route.distance = <<>> \/ route.duration = <<>> THEN <<>>
        ELSE <<[coordinates |-> coords,
                distance |-> (route.distance[1] * 100) \div 1000,
                duration |-> (route.duration[1] * 100) \div 60,
                method |-> "MapMyIndia"]>>

\* _get_openroute_route: the first route of the answer, its geometry being a
\* list of points; None when the request raises, the status is not 200 or
\* reading the route raises (no route, a key missing).
_get_openroute_route(response, start_coords, end_coords) ==
    IF response.raises THEN <<>>
    ELSE IF response.status_code # 200 THEN <<>>
    ELSE IF Len(response.routes) = 0 THEN <<>>
    ELSE
      LET route == response.routes[1] IN
      IF route.geometry = <<>> THEN <<>>
      ELSE IF route.distance = <<>> \/ route.duration = <<>> THEN <<>>
      ELSE <<[coordinates |-> IF route.geometry[1] = "" THEN <<>>
                              ELSE <<Point(start_coords), Point(end_coords)>>,
              distance |-> (route.distance[1] * 100) \div 1000,
              duration |-> (route.duration[1] * 100) \div 60,
              method |-> "OpenRouteService"]>>

\* The loop of _get_direct_route: the points at the fractions i / num_points
\* of the way, for i = 0 .. num_points.
RECURSIVE direct_points(_, _, _)
direct_points(start_coords, end_coords, i) ==
    IF i > num_points THEN <<>>
    ELSE <<Point(start_coords) + (end_coords - start_coords) * i>>
            \o direct_points(start_coords, end_coords, i + 1)

\* _get_direct_route: the straight line, at 50 km/h.
_get_direct_route(start_coords, end_coords) ==
    LET distance == Abs(end_coords - start_coords) * 100 IN
    [coordinates |-> direct_points(start_coords, end_coords, 0),
     distance |-> distance,
     duration |-> (distance * 60) \div 50,
     method |-> "fallback"]

\* get_route giving up when no provider has a route.
get_route_or_none(api_key, mappls, openroute, start_coords, end_coords) ==
    LET from_mappls == _get_mappls_route(mappls, start_coords, end_coords)
        from_openroute == _get_openroute_route(openroute, start_coords, end_coords)
    IN IF api_key # <<>> /\ from_mappls # <<>> THEN from_mappls
       ELSE from_openroute

\* get_route: MapMyIndia when there is a key, then OpenRouteService, then the
\* straight line.
get_route(api_key, mappls, openroute, start_coords, end_coords) ==
    LET from_mappls == _get_mappls_route(mappls, start_coords, end_coords)
        from_openroute == _get_openroute_route(openroute, start_coords, end_coords)
    IN IF api_key # <<>> /\ from_mappls # <<>> THEN from_mappls
       ELSE IF from_openroute # <<>> THEN from_openroute
       ELSE <<_get_direct_route(start_coords, end_coords)>>

\* The first route of a provider's answer: keys may be missing, the geometry
\* may be empty.
MapRawRoutes ==
    [geometry : {<<>>, <<"">>, <<"polyline">>},
     distance : {<<>>, <<1000>>},
     duration : {<<>>, <<60>>}]

\* A provider's answers to one request.
MapResponses ==
    {[raises |-> FALSE, status_code |-> 200, routes |-> rs] :
        rs \in SeqsOf(MapRawRoutes, 0, 1)}
    \cup {[raises |-> TRUE, status_code |-> 200, routes |-> <<>>],
          [raises |-> FALSE, status_code |-> 500, routes |-> <<>>]}

\* No route is asked for.
MapIdle ==
    /\ map_in = [api_key |-> <<>>, start_coords |-> 0, end_coords |-> 0,
                 mappls |-> [raises |-> TRUE, status_code |-> 200, routes |-> <<>>],
                 openroute |-> [raises |-> TRUE, status_code |-> 200, routes |-> <<>>]]
    /\ map_out = [called |-> FALSE, value |-> <<>>]

\* A caller asks for a route between two positions; the service has a
\* MapMyIndia key or not, the providers answer in some way.
MapInit ==
    /\ map_in \in [api_key : {<<>>, <<"key">>},
                   start_coords : Coord, end_coords : Coord,
                   mappls : MapResponses, openroute : MapResponses]
    /\ map_out = [called |-> FALSE, value |-> <<>>]

\* MapService.get_route
GetRoute ==
    /\ map_out' = [called |-> TRUE,
                   value |-> get_route(map_in.api_key, map_in.mappls, map_in.openroute,
                                       map_in.start_coords, map_in.end_coords)]
    /\ UNCHANGED <<map_in, notMap>>

(***************************************************************************)
(* Crops: create_crop_suitability_chart (app_clean.py) and                 *)
(* RouteService.optimize_route_for_crop.  A route's duration is in minutes *)
(* and its distance in kilometres; urgencies are in tenths, speed factors   *)
(* and suitability scores in hundredths, speeds in tenths of a km/h.       *)
(***************************************************************************)

\* CROP_TYPES of app_clean.py: the urgency of a crop type, in tenths.
CROP_TYPES ==
    [crop_type \in {"Highly Perishable", "Moderately Perishable", "Low Perishable",
                    "Non-Perishable"} |->
        CASE crop_type = "Highly Perishable" -> 15
          [] crop_type = "Moderately Perishable" -> 12
          [] crop_type = "Low Perishable" -> 10
          [] crop_type = "Non-Perishable" -> 8]

\* The suitability without max(0, min(100, ...)).
suitability_unclamped(route, urgency_factor) ==
    10000 - (route.duration - 20) * urgency_factor * 10
          - (route.distance - 10) * urgency_factor * 5

\* The suitability of a route in create_crop_suitability_chart, in hundredths.
suitability(route, urgency_factor) ==
    LET base_score == 10000
        time_penalty == (route.duration - 20) * urgency_factor * 10
        distance_penalty == (route.distance - 10) * urgency_factor * 5
        raw == base_score - time_penalty - distance_penalty
        capped == IF raw < 10000 THEN raw ELSE 10000
    IN IF capped > 0 THEN capped ELSE 0

\* The grade create_crop_suitability_chart writes on a bar.
grade(score) ==
    IF score >= 8000 THEN "A"
    ELSE IF score >= 6000 THEN "B"
    ELSE "C"

\* create_crop_suitability_chart: the score and the grade of every bar, None
\* (<<>>) without routes or for a crop type that is not in CROP_TYPES.
create_crop_suitability_chart(crop_type, routes) ==
    IF routes = <<>> \/ crop_type \notin DOMAIN CROP_TYPES THEN <<>>
    ELSE LET urgency_factor == CROP_TYPES[crop_type] IN
         <<[i \in DOMAIN routes |->
                [score |-> suitability(routes[i], urgency_factor),
                 grade |-> grade(suitability(routes[i], urgency_factor))]]>>

\* speed_factors of optimize_route_for_crop, in hundredths.
speed_factors ==
    [crop_type \in {"Highly Perishable", "Moderately Perishable", "Non-Perishable",
                    "Fragile", "Bulk / Heavy"} |->
        CASE crop_type = "Highly Perishable" -> 85
          [] crop_type = "Moderately Perishable" -> 100
          [] crop_type = "Non-Perishable" -> 110
          [] crop_type = "Fragile" -> 70
          [] crop_type = "Bulk / Heavy" -> 80]

\* speed_factors[crop_type], failing for a crop type that is not a key.
speed_factor_of_key(crop_type) ==
    IF crop_type \in DOMAIN speed_factors
    THEN [raised |-> "none", factor |-> speed_factors[crop_type]]
    ELSE [raised |-> "KeyError", factor |-> 0]

\* speed_factors.get(crop_type, 1.0)
speed_factor(crop_type) ==
    IF crop_type \in DOMAIN speed_factors
    THEN [raised |-> "none", factor |-> speed_factors[crop_type]]
    ELSE [raised |-> "none", factor |-> 100]

\* The estimated time at the base speed.
eta_at_base_speed(distance, adjusted_speed) ==
    [num |-> distance * 60 * 10, den |-> 50 * 10]

\* (distance / adjusted_speed) * 60, as the fraction num / den of minutes.
eta_minutes(distance, adjusted_speed) ==
    [num |-> distance * 60 * 10, den |-> adjusted_speed]

\* int(x / y) of Python: the quotient rounded towards zero.
int_div(x, y) == IF x >= 0 THEN x \div y ELSE -((-x) \div y)

\* The stops without max(0, ...).
recommended_stops_unclamped(distance, crop_type) ==
    IF crop_type \in {"Highly Perishable", "Fragile"}
    THEN int_div(distance, 100)
    ELSE int_div(distance, 150)

\* The recommended stops of optimize_route_for_crop.
recommended_stops(distance, crop_type) ==
    LET stops == IF crop_type \in {"Highly Perishable", "Fragile"}
                 THEN int_div(distance, 100)
                 ELSE int_div(distance, 150)
    IN IF stops > 0 THEN stops ELSE 0

\* optimize_route_for_crop (its quantity argument is not read).
optimize_route_for_crop(distance, crop_type) ==
    LET base_speed == 50
        factor == speed_factor(crop_type)
        adjusted_speed == (base_speed * factor.factor) \div 10
    IN IF factor.raised # "none"
       THEN [raised |-> factor.raised, adjusted_speed |-> 0,
             eta_minutes |-> [num |-> 0, den |-> 1], recommended_stops |-> 0,
             priority |-> ""]
       ELSE [raised |-> "none",
             adjusted_speed |-> adjusted_speed,
             eta_minutes |-> eta_minutes(distance, adjusted_speed),
             recommended_stops |-> recommended_stops(distance, crop_type),
             priority |-> IF crop_type = "Highly Perishable" THEN "high" ELSE "medium"]

\* The crop types a caller can pass: those of either table and one of neither.
CropTypeValues == DOMAIN CROP_TYPES \cup DOMAIN speed_factors \cup {"Unknown"}

\* The routes a chart is drawn for.
CropRoutes == [duration : {0, 20, 30, 40, 120}, distance : {0, 10, 20, 100}]

\* The distances a route is optimized for, in kilometres.
DistanceValues == {-250, -1, 0, 99, 100, 149, 150, 250, 300}

NotOptimized ==
    [raised |-> "none", adjusted_speed |-> 0, eta_minutes |-> [num |-> 0, den |-> 1],
     recommended_stops |-> 0, priority |-> ""]

\* No crop evaluation is asked for.
CropIdle ==
    /\ crop_in = [crop_type |-> "Moderately Perishable", routes |-> <<>>, distance |-> 0]
    /\ crop_out = [op |-> "none", chart |-> <<>>, optimization |-> NotOptimized]

\* A caller holds a crop type, some routes and a distance.
CropInit ==
    /\ crop_in \in [crop_type : CropTypeValues, routes : SeqsOf(CropRoutes, 0, 1),
                    distance : DistanceValues]
    /\ crop_out = [op |-> "none", chart |-> <<>>, optimization |-> NotOptimized]

\* The suitability chart is drawn.
CreateCropSuitabilityChart ==
    /\ crop_out' = [op |-> "create_crop_suitability_chart",
                    chart |-> create_crop_suitability_chart(crop_in.crop_type,
                                                            crop_in.routes),
                    optimization |-> NotOptimized]
    /\ UNCHANGED <<crop_in, notCrop>>

\* The route is optimized for the crop.
OptimizeRouteForCrop ==
    /\ crop_out' = [op |-> "optimize_route_for_crop",
                    chart |-> <<>>,
                    optimization |-> optimize_route_for_crop(crop_in.distance,
                                                             crop_in.crop_type)]
    /\ UNCHANGED <<crop_in, notCrop>>

(***************************************************************************)
(* WeatherService: check_weather and evaluate_route_weather                *)
(***************************************************************************)

\* WeatherService._default_weather
_default_weather ==
    [temperature |-> 25, precipitation |-> 0, rain |-> 0, weather_code |-> 0,
     wind_speed |-> 10, is_risky |-> FALSE]

\* The `current` object of a forecast: mainly clear, fog, thunderstorm, heavy
\* rain, and strong wind under a partly cloudy sky.
CurrentValues ==
    {[temperature_2m |-> 22, precipitation |-> 0, rain |-> 0, weathercode |-> 1,
      windspeed_10m |-> 12],
     [temperature_2m |-> 8, precipitation |-> 0, rain |-> 0, weathercode |-> 45,
      windspeed_10m |-> 5],
     [temperature_2m |-> 27, precipitation |-> 3, rain |-> 3, weathercode |-> 95,
      windspeed_10m |-> 30],
     [temperature_2m |-> 18, precipitation |-> 6, rain |-> 6, weathercode |-> 3,
      windspeed_10m |-> 20],
     [temperature_2m |-> 15, precipitation |-> 0, rain |-> 0, weathercode |-> 2,
      windspeed_10m |-> 41]}

\* What requests.get may do in check_weather: raise, or answer with a status
\* code and a body that has a `current` object or lacks it.
ForecastAnswers ==
    {[raised |-> TRUE, status_code |-> 0, current |-> <<>>]}
        \cup [raised : {FALSE}, status_code : {200, 500},
              current : {<<>>} \cup {<<c>> : c \in CurrentValues}]

\* check_weather with the status code of the answer left unchecked.
check_weather_status_unchecked(response) ==
    IF response.raised \/ response.current = <<>> THEN _default_weather
    ELSE LET current == response.current[1]
         IN [temperature |-> current.temperature_2m,
             precipitation |-> current.precipitation,
             rain |-> current.rain,
             weather_code |-> current.weathercode,
             wind_speed |-> current.windspeed_10m,
             is_risky |-> _is_weather_risky(current)]

\* WeatherService.check_weather, given the provider's answer to its request.
\* data['current'] of a body without that key raises KeyError inside the try.
check_weather(response) ==
    IF response.raised THEN _default_weather
    ELSE IF response.status_code = 200
         THEN IF response.current = <<>> THEN _default_weather
              ELSE LET current == response.current[1]
                   IN [temperature |-> current.temperature_2m,
                       precipitation |-> current.precipitation,
                       rain |-> current.rain,
                       weather_code |-> current.weathercode,
                       wind_speed |-> current.windspeed_10m,
                       is_risky |-> _is_weather_risky(current)]
         ELSE _default_weather

\* WeatherService.get_weather_description
get_weather_description(weather_code) ==
    CASE weather_code = 0 -> "Clear sky"
      [] weather_code = 1 -> "Mainly clear"
      [] weather_code = 2 -> "Partly cloudy"
      [] weather_code = 3 -> "Overcast"
      [] weather_code = 45 -> "Foggy"
      [] weather_code = 48 -> "Dense fog"
      [] weather_code = 51 -> "Light drizzle"
      [] weather_code = 53 -> "Moderate drizzle"
      [] weather_code = 55 -> "Dense drizzle"
      [] weather_code = 61 -> "Slight rain"
      [] weather_code = 63 -> "Moderate rain"
      [] weather_code = 65 -> "Heavy rain"
      [] weather_code = 71 -> "Slight snow"
      [] weather_code = 73 -> "Moderate snow"
      [] weather_code = 75 -> "Heavy snow"
      [] weather_code = 95 -> "Thunderstorm"
      [] weather_code = 96 -> "Thunderstorm with hail"
      [] weather_code = 99 -> "Heavy thunderstorm"
      [] OTHER -> "Unknown"

\* WeatherService._get_recommendation; the message as the parts of its f-string.
_get_recommendation(is_risky, weather) ==
    IF ~is_risky THEN <<"Current route is optimal based on weather conditions.">>
    ELSE LET code == weather.weather_code
             desc == get_weather_description(code)
         IN <<"Weather Alert: ", desc,
              " detected. Alternative route recommended for safety.">>

\* evaluate_route_weather with the midpoint left out of the risk flag.
evaluate_route_weather_ends_only(answers) ==
    LET start_weather == check_weather(answers.start)
        end_weather == check_weather(answers.end)
        mid_weather == check_weather(answers.mid)
        is_risky == start_weather.is_risky \/ end_weather.is_risky
        worst_weather == IF mid_weather.is_risky THEN mid_weather
                         ELSE IF end_weather.is_risky THEN end_weather
                         ELSE start_weather
    IN [is_risky |-> is_risky,
        start_weather |-> start_weather,
        end_weather |-> end_weather,
        mid_weather |-> mid_weather,
        worst_condition |-> worst_weather,
        recommendation |-> _get_recommendation(is_risky, worst_weather)]

\* WeatherService.evaluate_route_weather, given the provider's answers to the
\* lookups at the start, the end and the midpoint.
evaluate_route_weather(answers) ==
    LET start_weather == check_weather(answers.start)
        end_weather == check_weather(answers.end)
        mid_weather == check_weather(answers.mid)
        is_risky == start_weather.is_risky \/ end_weather.is_risky
                        \/ mid_weather.is_risky
        worst_weather == IF mid_weather.is_risky THEN mid_weather
                         ELSE IF end_weather.is_risky THEN end_weather
                         ELSE start_weather
    IN [is_risky |-> is_risky,
        start_weather |-> start_weather,
        end_weather |-> end_weather,
        mid_weather |-> mid_weather,
        worst_condition |-> worst_weather,
        recommendation |-> _get_recommendation(is_risky, worst_weather)]

NoAnswer == [raised |-> TRUE, status_code |-> 0, current |-> <<>>]

\* No route is being evaluated.
EvalIdle ==
    /\ eval_in = [start |-> NoAnswer, end |-> NoAnswer, mid |-> NoAnswer]
    /\ eval_out = <<>>

\* The provider will answer the three lookups of a route in some way.
EvalInit ==
    /\ eval_in \in [start : ForecastAnswers, end : ForecastAnswers, mid : ForecastAnswers]
    /\ eval_out = <<>>

\* The weather along the route is evaluated.
EvaluateRouteWeather ==
    /\ eval_out' = <<evaluate_route_weather(eval_in)>>
    /\ UNCHANGED <<eval_in, notEval>>

\* The provider's answer to one of the lookups changes.
AnswerChanges ==
    /\ \E k \in {"start", "end", "mid"}, a \in ForecastAnswers :
           eval_in' = [eval_in EXCEPT ![k] = a]
    /\ eval_out' = <<>>
    /\ UNCHANGED notEval

(***************************************************************************)
(* app_new.py: the session state and its handlers.  Each handler ends in   *)
(* st.rerun(); the assignments the rerun of the script makes from the      *)
(* sidebar's widgets are the Select* and EnterQuantity actions.            *)
(***************************************************************************)

\* Entries of dehradun_locations, named by their keys.
AppLocations == {"Clock Tower (City Center)", "Rajpur Road"}

\* Options of the crop type selectbox and values of the quantity input.
AppCropTypes == {"Highly Perishable", "Moderately Perishable"}

QuantityValues == {100, 110}

\* Routes of the map service: a coordinate list with a distance in km and a
\* duration in minutes.
AppRoutes ==
    {[coordinates |-> <<<<30, 78>>, <<31, 79>>>>, distance |-> 5, duration |-> 10],
     [coordinates |-> <<<<30, 78>>, <<32, 77>>, <<31, 79>>>>, distance |-> 8, duration |-> 9]}

\* What services['map'].get_multiple_routes may do: raise, return no routes
\* (None or [], both falsy, written <<>>) or return a list of routes.
MultipleRoutesResults ==
    LET a == CHOOSE r \in AppRoutes : r.distance = 5
        b == CHOOSE r \in AppRoutes : r.distance = 8
    IN {[raised |-> TRUE, routes |-> <<>>], [raised |-> FALSE, routes |-> <<>>]}
       \cup {[raised |-> FALSE, routes |-> rs] :
                rs \in {<<a>>, <<a, b>>, <<b, a>>, <<a, b, a, b>>}}

\* What the directions request of get_alternative_route may be answered:
\* routes with a geometry of (lon, lat) pairs and a summary in metres and
\* seconds.
AlternativeAnswers ==
    LET main == [geometry |-> <<<<78, 30>>, <<79, 31>>>>,
                 summary |-> [distance |-> 5000, duration |-> 600]]
        other == [geometry |-> <<<<78, 30>>, <<77, 32>>, <<79, 31>>>>,
                  summary |-> [distance |-> 7000, duration |-> 660]]
    IN {[raises |-> TRUE, status_code |-> 200, routes |-> <<>>],
        [raises |-> FALSE, status_code |-> 500, routes |-> <<>>]}
       \cup {[raises |-> FALSE, status_code |-> 200, routes |-> rs] :
                rs \in {<<>>, <<main>>, <<main, other>>}}

\* MapService.get_alternative_route, given the answer to its request: the
\* second route if there is one, else the first; None (<<>>) when the request
\* raises, the status is not 200 or the answer has no route (IndexError).
get_alternative_route(response) ==
    IF response.raises THEN <<>>
    ELSE IF response.status_code = 200
         THEN IF response.routes = <<>> THEN <<>>
              ELSE LET route == IF Len(response.routes) > 1 THEN response.routes[2]
                                ELSE response.routes[1]
                       coords == [k \in DOMAIN route.geometry |->
                                    <<route.geometry[k][2], route.geometry[k][1]>>]
                   IN <<[coordinates |-> coords,
                         distance |-> route.summary.distance \div 1000,
                         duration |-> route.summary.duration \div 60]>>
         ELSE <<>>

\* The answers of the forecast provider in a session: a mainly clear sky or
\* fog.
SessionForecasts ==
    {[raised |-> FALSE, status_code |-> 200, current |-> <<c>>] :
        c \in {v \in CurrentValues : v.weathercode \in {1, 45}}}

\* The session state initialisation at the top of the script; None is <<>>
\* and the absent map_counter is 0.
InitialSession ==
    [start_location |-> <<>>, end_location |-> <<>>, route_calculated |-> FALSE,
     current_route |-> <<>>, all_routes |-> <<>>, selected_route_idx |-> 0,
     alternative_route |-> <<>>, weather_checked |-> FALSE,
     crop_type |-> "Moderately Perishable", quantity |-> 100, map_counter |-> 0]

\* calculate_route that keeps the selected index of the previous calculation.
calculate_route_keeps_selection(session, result) ==
    IF result.raised THEN session
    ELSE IF result.routes # <<>>
    THEN [session EXCEPT !.all_routes = result.routes,
                         !.current_route = <<result.routes[1]>>,
                         !.route_calculated = TRUE,
                         !.weather_checked = FALSE,
                         !.alternative_route = <<>>,
                         !.map_counter = @ + 1]
    ELSE session

\* calculate_route that clears the previous calculation before it asks.
calculate_route_clears_first(session, result) ==
    LET cleared == [session EXCEPT !.route_calculated = FALSE, !.current_route = <<>>] IN
    IF result.raised THEN cleared
    ELSE IF result.routes # <<>>
    THEN [session EXCEPT !.all_routes = result.routes,
                         !.current_route = <<result.routes[1]>>,
                         !.selected_route_idx = 0,
                         !.route_calculated = TRUE,
                         !.weather_checked = FALSE,
                         !.alternative_route = <<>>,
                         !.map_counter = @ + 1]
    ELSE cleared

\* calculate_route: the session state after it, given what get_multiple_routes
\* did.
calculate_route(session, result) ==
    IF result.raised THEN session
    ELSE IF result.routes # <<>>
    THEN [session EXCEPT !.all_routes = result.routes,
                         !.current_route = <<result.routes[1]>>,
                         !.selected_route_idx = 0,
                         !.route_calculated = TRUE,
                         !.weather_checked = FALSE,
                         !.alternative_route = <<>>,
                         !.map_counter = @ + 1]
    ELSE session

\* check_weather_and_reroute: the session state after it, given the weather
\* evaluation and what get_alternative_route returned.
check_weather_and_reroute(session, weather_eval, alt_route) ==
    LET checked == [session EXCEPT !.weather_checked = TRUE] IN
    IF weather_eval.is_risky
    THEN IF alt_route # <<>> THEN [checked EXCEPT !.alternative_route = alt_route]
         ELSE checked
    ELSE checked

\* reset_all
reset_all(session) ==
    [session EXCEPT !.start_location = <<>>,
                    !.end_location = <<>>,
                    !.route_calculated = FALSE,
                    !.current_route = <<>>,
                    !.alternative_route = <<>>,
                    !.weather_checked = FALSE]

\* The route buttons display_route_options shows: at most three, none for
\* the selected route.
RouteButtons(session) ==
    {idx \in 0 .. Len(session.all_routes) - 1 :
        idx < 3 /\ idx # session.selected_route_idx}

NoAction ==
    [op |-> "none", ok |-> FALSE, routes |-> <<>>, latest_check |-> "none"]

\* A new session.
AppIdle ==
    /\ session_state = InitialSession
    /\ last_action = NoAction

\* The start location selectbox holds a location.
SelectStart ==
    /\ \E name \in AppLocations :
          session_state' = [session_state EXCEPT !.start_location = <<name>>]
    /\ last_action' = [last_action EXCEPT !.op = "select_start", !.ok = TRUE,
                                          !.routes = <<>>]
    /\ UNCHANGED notApp

\* The end location selectbox holds a location.
SelectEnd ==
    /\ \E name \in AppLocations :
          session_state' = [session_state EXCEPT !.end_location = <<name>>]
    /\ last_action' = [last_action EXCEPT !.op = "select_end", !.ok = TRUE,
                                          !.routes = <<>>]
    /\ UNCHANGED notApp

\* The crop type selectbox and the quantity input are read.
SelectCrop ==
    /\ \E crop_type \in AppCropTypes, quantity \in QuantityValues :
          session_state' = [session_state EXCEPT !.crop_type = crop_type,
                                                 !.quantity = quantity]
    /\ last_action' = [last_action EXCEPT !.op = "select_crop", !.ok = TRUE,
                                          !.routes = <<>>]
    /\ UNCHANGED notApp

\* "Calculate Optimal Route", enabled with both locations set.
CalculateRoute ==
    /\ session_state.start_location # <<>> /\ session_state.end_location # <<>>
    /\ session_state.map_counter < MaxMapCounter
    /\ \E result \in MultipleRoutesResults :
          /\ session_state' = calculate_route(session_state, result)
          /\ last_action' =
                [op |-> "calculate_route",
                 ok |-> ~result.raised /\ result.routes # <<>>,
                 routes |-> result.routes,
                 latest_check |-> IF ~result.raised /\ result.routes # <<>>
                                  THEN "none" ELSE last_action.latest_check]
    /\ UNCHANGED notApp

\* A route button of display_route_options, shown once routes are calculated
\* and there is more than one.
SelectRoute ==
    /\ session_state.route_calculated
    /\ Len(session_state.all_routes) > 1
    /\ \E idx \in RouteButtons(session_state) :
          session_state' = [session_state EXCEPT
                                !.selected_route_idx = idx,
                                !.current_route = <<session_state.all_routes[idx + 1]>>]
    /\ last_action' = [last_action EXCEPT !.op = "select_route", !.ok = TRUE,
                                          !.routes = <<>>]
    /\ UNCHANGED notApp

\* "Reroute Based on Weather", shown once routes are calculated.
CheckWeatherAndReroute ==
    /\ session_state.route_calculated
    /\ \E answers \in [start : SessionForecasts, end : SessionForecasts,
                       mid : SessionForecasts],
          response \in AlternativeAnswers :
          LET weather_eval == evaluate_route_weather(answers) IN
          /\ session_state' = check_weather_and_reroute(session_state, weather_eval,
                                                        get_alternative_route(response))
          /\ last_action' = [op |-> "check_weather_and_reroute",
                             ok |-> TRUE,
                             routes |-> <<>>,
                             latest_check |-> IF weather_eval.is_risky THEN "risky"
                                              ELSE "clear"]
    /\ UNCHANGED notApp

\* "Reset", shown with a location set.
ResetAll ==
    /\ session_state.start_location # <<>> \/ session_state.end_location # <<>>
    /\ session_state' = reset_all(session_state)
    /\ last_action' = [op |-> "reset_all", ok |-> TRUE, routes |-> <<>>,
                       latest_check |-> "none"]
    /\ UNCHANGED notApp

\* What `last` holds: the call, its arguments and its outcome.
Call(op, start, end, raised, path, cost, coords) ==
    [op |-> op, start |-> start, end |-> end, raised |-> raised,
     path |-> path, cost |-> cost, coords |-> coords]

NoCall == Call("none", 0, 0, "none", <<>>, 0, <<>>)

\* RouteService.__init__
RouteInit ==
    /\ graph = EmptyGraph
    /\ route_coords = <<>>
    /\ last = NoCall

\* A caller builds the graph of a waypoint sequence.
CreateGraph ==
    \E coords \in SeqsOf(Coord, 0, MaxLen) :
        LET r == create_graph_from_coords(coords) IN
        /\ graph' = (IF r.raised = "none" THEN r.G ELSE graph)
        /\ route_coords' = coords
        /\ last' = Call("create_graph_from_coords", 0, 0, r.raised, <<>>, 0, <<>>)
        /\ UNCHANGED notRoute

\* A caller asks for the shortest path between two node ids.
FindShortestPath ==
    \E s \in 0 .. MaxLen, e \in 0 .. MaxLen :
        LET r == find_shortest_path(graph, s, e) IN
        /\ last' = Call("find_shortest_path", s, e, r.raised, r.path, r.cost, <<>>)
        /\ UNCHANGED <<graph, route_coords, notRoute>>

\* A caller maps the node path it was just given back to coordinates.
GetPathCoordinates ==
    /\ last.op = "find_shortest_path"
    /\ last.raised = "none"
    /\ LET r == get_path_coordinates(graph, last.path) IN
       last' = Call("get_path_coordinates", last.start, last.end, r.raised,
                    last.path, last.cost, r.coords)
    /\ UNCHANGED <<graph, route_coords, notRoute>>

(***************************************************************************)
(* Sessions sharing the RouteService of get_services (app_new.py): the    *)
(* service is created once, every session calls the same instance, and    *)
(* `graph` is that instance's self.graph.                                  *)
(***************************************************************************)

Sessions == {1, 2}

\* The waypoint sequences the sessions route over.
SessionCoords == SeqsOf(Coord, 2, 2) \cup {<<0, MaxCoord, 0>>}

NotStarted == [pc |-> "start", coords |-> <<>>, path |-> <<>>, cost |-> 0]

\* No session uses the service.
CallersIdle == callers = [c \in Sessions |-> NotStarted]

\* Session c builds the graph of its waypoints: create_graph_from_coords
\* assigns it to self.graph of the shared instance.
SessionCreatesGraph(c) ==
    /\ callers[c].pc = "start"
    /\ \E coords \in SessionCoords :
          /\ graph' = create_graph_from_coords(coords).G
          /\ callers' = [callers EXCEPT ![c] = [@ EXCEPT !.pc = "built", !.coords = coords]]
    /\ UNCHANGED <<route_coords, last, notShared>>

\* Session c asks for the shortest path from the first to the last node of
\* its route: find_shortest_path reads self.graph of the shared instance.
SessionFindsPath(c) ==
    /\ callers[c].pc = "built"
    /\ LET r == find_shortest_path(graph, 0, Len(callers[c].coords) - 1) IN
       callers' = [callers EXCEPT ![c] = [@ EXCEPT !.pc = "done", !.path = r.path,
                                                   !.cost = r.cost]]
    /\ UNCHANGED <<graph, route_coords, last, notShared>>

\* The RouteService as its callers drive it.
Init == RouteInit /\ WeatherIdle /\ RankIdle /\ CleanIdle /\ MapIdle /\ RoadIdle /\ CallersIdle /\ CropIdle /\ EvalIdle /\ AppIdle

Next ==
    \/ CreateGraph
    \/ FindShortestPath
    \/ GetPathCoordinates

Spec == Init /\ [][Next]_vars

(***************************************************************************)
(* The solver on any graph: find_shortest_path reads self.graph, a public  *)
(* attribute, so the graph is drawn from every weighted graph on the nodes *)
(* node_0 .. node_{MaxLen-1}.                                              *)
(***************************************************************************)

NodePairs(NS) == {p \in NS \X NS : p[1] < p[2]}

GraphsOn(NS) ==
    UNION {{[nodes |-> NS,
             edges |-> {[u |-> p[1], v |-> p[2], weight |-> w[p],
                         coords_a |-> 0, coords_b |-> w[p]] : p \in ES}]
            : w \in [ES -> Coord]}
           : ES \in SUBSET NodePairs(NS)}

SolverGraphs == UNION {GraphsOn(NS) : NS \in SUBSET (0 .. MaxLen - 1)}

SolverInit ==
    /\ graph \in SolverGraphs
    /\ route_coords = <<>>
    /\ last = NoCall
    /\ WeatherIdle
    /\ RankIdle
    /\ CleanIdle
    /\ MapIdle
    /\ RoadIdle
    /\ CallersIdle
    /\ CropIdle /\ EvalIdle /\ AppIdle

\* One query per graph: find_shortest_path changes nothing a later query reads.
SolveOnce == last = NoCall /\ FindShortestPath

SolverNext == SolveOnce

SpecSolver == SolverInit /\ [][SolverNext]_vars

(***************************************************************************)
(* Claims about the RouteService                                           *)
(***************************************************************************)

\* The number of waypoints of the current graph.
N == Len(route_coords)

\* The naive chain sum: the distances of consecutive waypoints, added up.
RECURSIVE ChainSum(_, _, _)
ChainSum(coords, i, j) ==
    IF i >= j THEN 0
    ELSE _calculate_distance(coords[i + 1], coords[i + 2]) + ChainSum(coords, i + 1, j)

\* C2: for a graph built from N >= 2 waypoints, find_shortest_path(node_0,
\* node_{N-1}) returns a cost equal to the sum of the N-1 weights of the edges
\* between consecutive waypoints.
C2_SolverCostIsChainSum ==
    (last.op = "find_shortest_path" /\ N >= 2 /\ last.start = 0 /\ last.end = N - 1)
        => /\ last.raised = "none"
           /\ last.cost = ChainSum(route_coords, 0, N - 1)

\* C2 witness: the end-to-end query on a three-waypoint chain with a zero-weight
\* and a positive-weight edge.
C2_Witness ==
    /\ last.op = "find_shortest_path" /\ N = 3 /\ last.start = 0 /\ last.end = 2
    /\ route_coords[1] = route_coords[2] /\ route_coords[2] # route_coords[3]
    /\ last.cost = 1

\* Whether a and b are joined by a walk in G (a is joined to itself).
RECURSIVE ReachFrom(_, _)
ReachFrom(G, S) ==
    LET T == S \cup {u \in G.nodes : \E x \in S : get_edge_data(G, x, u) # {}}
    IN IF T = S THEN S ELSE ReachFrom(G, T)

Connected(G, a, b) == b \in ReachFrom(G, {a})

\* C5: find_shortest_path returns the empty result ([], 0.0) and does not raise
\* whenever the start node or the end node is not in the graph, or the two nodes
\* are not connected.
C5_NoPathIsEmptyResult ==
    (/\ last.op = "find_shortest_path"
     /\ \/ ~has_node(graph, last.start)
        \/ ~has_node(graph, last.end)
        \/ ~Connected(graph, last.start, last.end))
        => (last.raised = "none" /\ last.path = <<>> /\ last.cost = 0)

\* C5 witness: a query between two nodes of the graph that no walk joins.
C5_Witness ==
    /\ last.op = "find_shortest_path"
    /\ has_node(graph, last.start) /\ has_node(graph, last.end)
    /\ graph.edges # {}
    /\ ~Connected(graph, last.start, last.end)
    /\ last.path = <<>>

\* C6: building a graph from fewer than 2 waypoints fails with InvalidInput.
C6_ShortSequenceFails ==
    (last.op = "create_graph_from_coords" /\ N < 2) => last.raised = "InvalidInput"

\* C7: the graph built from N >= 2 waypoints has exactly the nodes node_0 ..
\* node_{N-1} and exactly N-1 edges, one per i joining node_i and node_{i+1} with
\* the distance of waypoints i and i+1 as weight, repeated coordinates or not.
C7_ChainGraphShape ==
    N >= 2 =>
        /\ graph.nodes = 0 .. N - 1
        /\ Cardinality(graph.edges) = N - 1
        /\ \A i \in 0 .. N - 2 :
              \E e \in graph.edges :
                  /\ {e.u, e.v} = {i, i + 1}
                  /\ e.weight = _calculate_distance(route_coords[i + 1],
                                                     route_coords[i + 2])

\* C7 witness: a graph built from three waypoints, the first and the last equal.
C7_Witness ==
    /\ last.op = "create_graph_from_coords"
    /\ N = 3 /\ route_coords[1] = route_coords[3] /\ route_coords[1] # route_coords[2]
    /\ Cardinality(graph.edges) = 2

\* C8: for any two nodes node_i, node_j of the built graph, get_path_coordinates
\* of the path find_shortest_path(node_i, node_j) returned does not raise and
\* returns the waypoints of the path's nodes, in path order, one per node.
C8_PathMapsBackToWaypoints ==
    (/\ last.op = "get_path_coordinates"
     /\ N >= 2 /\ last.start < N /\ last.end < N)
        => /\ last.raised = "none"
           /\ last.coords = [k \in 1 .. Len(last.path) |->
                                 route_coords[last.path[k] + 1]]

(***************************************************************************)
(* The scoring and the classification of any observation                   *)
(***************************************************************************)

WeatherSpecInit == RouteInit /\ WeatherInit /\ RankIdle /\ CleanIdle /\ MapIdle /\ RoadIdle /\ CallersIdle /\ CropIdle /\ EvalIdle /\ AppIdle

WeatherNext ==
    \/ CalculateWeatherSafetyScore
    \/ IsWeatherRisky

SpecWeather == WeatherSpecInit /\ [][WeatherNext]_vars

\* The single precipitation deduction of the scoring contract.
PrecipitationDeduction(p) ==
    CASE p > 10 -> 40
      [] p > 5 /\ p <= 10 -> 25
      [] p > 2 /\ p <= 5 -> 10
      [] OTHER -> 0

\* The single wind deduction of the scoring contract.
WindDeduction(w) ==
    CASE w > 35 -> 30
      [] w > 25 /\ w <= 35 -> 20
      [] w > 15 /\ w <= 25 -> 10
      [] OTHER -> 0

\* The single temperature deduction of the scoring contract.
TemperatureDeduction(t) ==
    CASE t < 0 \/ t > 40 -> 30
      [] (t >= 0 /\ t < 5) \/ (t > 35 /\ t <= 40) -> 20
      [] (t >= 5 /\ t < 10) \/ (t > 30 /\ t <= 35) -> 10
      [] OTHER -> 0

\* C3: the safety score of an observation is max(0, 100 - p - w - t) with one
\* precipitation, one wind and one temperature deduction, and lies in 0..100.
C3_ScoreIsHundredMinusDeductions ==
    scored.called =>
        LET total == 100 - PrecipitationDeduction(observation.precipitation)
                         - WindDeduction(observation.wind_speed)
                         - TemperatureDeduction(observation.temperature)
        IN /\ scored.score = (IF total > 0 THEN total ELSE 0)
           /\ scored.score \in 0 .. 100

\* C3 witness: the worst observation in every category is scored 0.
C3_Witness ==
    /\ scored.called
    /\ observation.precipitation > 10
    /\ observation.wind_speed > 35
    /\ observation.temperature > 40
    /\ scored.score = 0

\* Whether a WMO code lies in a fog, rain/drizzle, snow or thunderstorm range.
RiskyCodeRange(code) ==
    \/ code \in 45 .. 48
    \/ code \in 51 .. 67
    \/ code \in 71 .. 86
    \/ code \in 95 .. 99

PrioritizeInit == RouteInit /\ WeatherIdle /\ RankInit /\ CleanIdle /\ MapIdle /\ RoadIdle /\ CallersIdle /\ CropIdle /\ EvalIdle /\ AppIdle

PrioritizeNext ==
    \/ Prioritize
    \/ PrioritizeAgain

SpecPrioritize == PrioritizeInit /\ [][PrioritizeNext]_vars

\* Whether a candidate can be ranked: it has a first coordinate and a duration.
WellFormed(route) == route.coordinates # <<>> /\ route.duration # <<>>

\* C1: the ranking returns the candidates, each scored, ordered by descending
\* safety score and, among equal scores, by ascending duration: a candidate of
\* higher score precedes one of lower score whatever their durations.
C1_RankedBySafetyThenDuration ==
    (ranked.called /\ ranked.raised = "none") =>
        LET res == ranked.value IN
        /\ Len(res) = Len(routes_in)
        /\ {res[i].name : i \in DOMAIN res} = {routes_in[i].name : i \in DOMAIN routes_in}
        /\ \A i \in DOMAIN res :
              res[i].weather_safety_score =
                  <<calculate_weather_safety_score(
                        get_weather_data(res[i].coordinates[1], weather_at))>>
        /\ \A i \in DOMAIN res : \A j \in DOMAIN res :
              /\ res[i].weather_safety_score[1] > res[j].weather_safety_score[1]
                    => i < j
              /\ (/\ res[i].weather_safety_score[1] = res[j].weather_safety_score[1]
                  /\ res[i].duration[1] < res[j].duration[1])
                    => i < j

\* C1 witness: the slower but safer candidate, second in the input, is ranked
\* first.
C1_Witness ==
    /\ ranked.called /\ ranked.raised = "none"
    /\ Len(ranked.value) = 2
    /\ ranked.value[1].name = routes_in[2].name
    /\ ranked.value[1].duration[1] > ranked.value[2].duration[1]
    /\ ranked.value[1].weather_safety_score[1] > ranked.value[2].weather_safety_score[1]

\* C10: when the candidates passed to the ranking hold a malformed candidate
\* (no coordinates, or no duration) among valid ones, the call does not fail
\* and returns the valid candidates in ranked order.
C10_BadCandidateDoesNotAbort ==
    (/\ ranked.called
     /\ \E i \in DOMAIN routes_in : ~WellFormed(routes_in[i])
     /\ \E i \in DOMAIN routes_in : WellFormed(routes_in[i]))
        => /\ ranked.raised = "none"
           /\ {ranked.value[i].name : i \in DOMAIN ranked.value}
                = {routes_in[i].name : i \in {k \in DOMAIN routes_in :
                                                  WellFormed(routes_in[k])}}

\* C11: ranking the ranking's own output once more, the weather unchanged,
\* gives the same candidates in the same order with the same scores, also
\* when candidates tie in score and duration.
C11_RankingIsIdempotent ==
    [][PrioritizeAgain => (ranked'.raised = "none" /\ ranked'.value = ranked.value)]_vars

\* C11 witness: a ranked list of two candidates tied in score and duration
\* has been ranked again.
C11_Witness ==
    /\ ranked.called /\ ranked.raised = "none"
    /\ routes_in = ranked.value
    /\ Len(ranked.value) = 2
    /\ ranked.value[1].weather_safety_score # <<>>
    /\ ranked.value[1].weather_safety_score = ranked.value[2].weather_safety_score
    /\ ranked.value[1].duration = ranked.value[2].duration

\* Two candidates equal in every entry but the score and the weather.
SameButScores(a, b) ==
    [a EXCEPT !.weather_safety_score = <<>>, !.weather_data = <<>>]
        = [b EXCEPT !.weather_safety_score = <<>>, !.weather_data = <<>>]

\* The list `result` holds the candidates of `input`, each once, in some
\* order, each equal to its original but for the score and the weather.
AnnotatedPermutation(input, result) ==
    /\ Len(result) = Len(input)
    /\ \E f \in Permutations(DOMAIN input) :
          \A i \in DOMAIN input : SameButScores(result[f[i]], input[i])

\* C12: a call of the ranking leaves the list passed in as it was, in order
\* and in every candidate's entries, and what it returns is a permutation of
\* the candidates passed in, each differing from its original only by the
\* score and weather entries.
C12_InputIsNotMutated ==
    [][/\ Prioritize =>
            /\ routes_in' = routes_in
            /\ ranked'.raised = "none" => AnnotatedPermutation(routes_in, ranked'.value)
       /\ PrioritizeAgain =>
            /\ routes_in' = ranked.value
            /\ ranked'.raised = "none" => AnnotatedPermutation(ranked.value, ranked'.value)
      ]_vars

\* C12 witness: two unscored candidates were ranked, the second one first, and
\* the list passed in still holds them unscored in their order.
C12_Witness ==
    /\ ranked.called /\ ranked.raised = "none"
    /\ Len(routes_in) = 2
    /\ \A i \in DOMAIN routes_in : routes_in[i].weather_safety_score = <<>>
    /\ ranked.value[1].name = routes_in[2].name
    /\ ranked.value[2].name = routes_in[1].name
    /\ ranked.value[1].weather_safety_score # <<>>

(***************************************************************************)
(* A session of app_clean.py                                               *)
(***************************************************************************)

CleanInit == RouteInit /\ WeatherIdle /\ RankIdle /\ CleanIdle /\ MapIdle /\ RoadIdle /\ CallersIdle /\ CropIdle /\ EvalIdle /\ AppIdle

CleanNext ==
    \/ GetShortestPath
    \/ RerouteBasedOnWeather

SpecClean == CleanInit /\ [][CleanNext]_vars

\* C9: with no weather evaluated, the candidate list the session holds after a
\* route calculation is in ascending order of duration, fastest first, in
\* whatever order the routing provider returned the candidates.
C9_DefaultOrderIsByDuration ==
    (~weather_checked /\ session_routes # <<>>) =>
        \A i \in DOMAIN session_routes : \A j \in DOMAIN session_routes :
            i < j => session_routes[i].duration[1] <= session_routes[j].duration[1]

(***************************************************************************)
(* MapService.get_route                                                    *)
(***************************************************************************)

MapSpecInit == RouteInit /\ WeatherIdle /\ RankIdle /\ CleanIdle /\ MapInit /\ RoadIdle /\ CallersIdle /\ CropIdle /\ EvalIdle /\ AppIdle

MapNext == GetRoute

SpecMap == MapSpecInit /\ [][MapNext]_vars

\* A provider's answer holds no route.
NoRouteIn(response) ==
    response.raises \/ response.status_code # 200 \/ response.routes = <<>>

\* C13: get_route never returns None, and when no provider yields a route it
\* returns the straight-line fallback: at least 2 points, the first the start
\* coordinate, the last the end coordinate, method 'fallback'.
C13_FallbackWhenNoProviderRoute ==
    map_out.called =>
        /\ map_out.value # <<>>
        /\ ((map_in.api_key = <<>> \/ NoRouteIn(map_in.mappls)) /\ NoRouteIn(map_in.openroute))
              => LET route == map_out.value[1] IN
                 /\ route.method = "fallback"
                 /\ Len(route.coordinates) >= 2
                 /\ route.coordinates[1] = Point(map_in.start_coords)
                 /\ route.coordinates[Len(route.coordinates)] = Point(map_in.end_coords)

\* C13 witness: with a key, both providers answered without a route and the
\* caller got the fallback between two different positions.
C13_Witness ==
    /\ map_out.called
    /\ map_in.api_key # <<>>
    /\ NoRouteIn(map_in.mappls) /\ NoRouteIn(map_in.openroute)
    /\ map_in.start_coords # map_in.end_coords
    /\ map_out.value # <<>>
    /\ map_out.value[1].method = "fallback"

(***************************************************************************)
(* get_real_road_route                                                     *)
(***************************************************************************)

RoadSpecInit == RouteInit /\ WeatherIdle /\ RankIdle /\ CleanIdle /\ MapIdle /\ RoadInit /\ CallersIdle /\ CropIdle /\ EvalIdle /\ AppIdle

RoadNext == GetRealRoadRoute

SpecRoad == RoadSpecInit /\ [][RoadNext]_vars

\* C14: every route get_real_road_route returns, from a provider or from the
\* simulation, has a distance above 0 and a duration of 0 or more.
C14_DistancePositiveDurationNonNegative ==
    road_out.called =>
        \A i \in DOMAIN road_out.value :
            /\ road_out.value[i].distance > 0
            /\ road_out.value[i].duration[1] >= 0

\* The try block of a provider ends in `return routes`: the request does not
\* raise, the status is 200 and one of the first three routes has a geometry
\* that decodes.
Yields(response) ==
    /\ ~response.raises /\ response.status_code = 200
    /\ \E i \in 1 .. Len(response.routes) :
          i <= 3 /\ response.routes[i].geometry = "polyline"

\* How many of the first three routes of the response have such a geometry.
Decodable(response) ==
    Cardinality({i \in 1 .. Len(response.routes) :
                    i <= 3 /\ response.routes[i].geometry = "polyline"})

SharedNext == \E c \in Sessions : SessionCreatesGraph(c) \/ SessionFindsPath(c)

SpecShared == Init /\ [][SharedNext]_vars

\* C15: under every interleaving of two sessions that each build a graph and
\* then ask for a shortest path on the shared RouteService, the result a
\* session gets is the shortest path in the graph this session built.
C15_ResultIsFromOwnGraph ==
    \A c \in Sessions :
        callers[c].pc = "done" =>
            LET own == find_shortest_path(create_graph_from_coords(callers[c].coords).G,
                                          0, Len(callers[c].coords) - 1)
            IN callers[c].path = own.path /\ callers[c].cost = own.cost

(***************************************************************************)
(* Crop suitability and route optimization                                 *)
(***************************************************************************)

CropSpecInit ==
    /\ RouteInit /\ WeatherIdle /\ RankIdle /\ CleanIdle /\ MapIdle /\ RoadIdle
    /\ CallersIdle /\ EvalIdle /\ AppIdle
    /\ CropInit

CropNext ==
    \/ CreateCropSuitabilityChart
    \/ OptimizeRouteForCrop

SpecCrop == CropSpecInit /\ [][CropNext]_vars

Clamp(lo, hi, x) == IF x < lo THEN lo ELSE IF x > hi THEN hi ELSE x

\* C16: the suitability of a route is clamp(0, 100, 100 - urgency * (duration
\* - 20) - 0.5 * urgency * (distance - 10)); it lies in 0 .. 100, is 100 at
\* the baseline of 20 minutes and 10 km for every urgency, and is graded "A"
\* from 80, "B" from 60 and "C" below.
C16_SuitabilityFormulaAndGrade ==
    (crop_out.op = "create_crop_suitability_chart" /\ crop_out.chart # <<>>) =>
        \A i \in DOMAIN crop_in.routes :
            LET route == crop_in.routes[i]
                urgency == CROP_TYPES[crop_in.crop_type]
                bar == crop_out.chart[1][i]
            IN /\ bar.score = Clamp(0, 10000,
                                    10000 - urgency * 10 * (route.duration - 20)
                                          - 5 * urgency * (route.distance - 10))
               /\ bar.score >= 0 /\ bar.score <= 10000
               /\ (route.duration = 20 /\ route.distance = 10) => bar.score = 10000
               /\ bar.grade = (CASE bar.score >= 8000 -> "A"
                                 [] bar.score >= 6000 /\ bar.score < 8000 -> "B"
                                 [] bar.score < 6000 -> "C")

\* C16 witness: a moderately perishable crop (urgency 1.2) on a route of 20
\* minutes and 10 km scores 100 and is graded "A".
C16_Witness ==
    /\ crop_out.op = "create_crop_suitability_chart"
    /\ crop_in.crop_type = "Moderately Perishable"
    /\ crop_in.routes = <<[duration |-> 20, distance |-> 10]>>
    /\ crop_out.chart = <<<<[score |-> 10000, grade |-> "A"]>>>>

C19_UnknownCropUsesDefault ==
    (/\ crop_out.op = "optimize_route_for_crop"
     /\ crop_in.crop_type \notin {"Highly Perishable", "Moderately Perishable",
                                  "Non-Perishable", "Fragile", "Bulk / Heavy"})
        => LET o == crop_out.optimization IN
           /\ o.raised = "none"
           /\ o.adjusted_speed = 500
           /\ o.eta_minutes.num * 50 = 60 * crop_in.distance * o.eta_minutes.den
           /\ o.recommended_stops
                = (IF crop_in.distance >= 0 THEN crop_in.distance \div 150 ELSE 0)
           /\ o.priority = "medium"

\* C19 witness: 300 km were optimized for a crop type of neither table.
C19_Witness ==
    /\ crop_out.op = "optimize_route_for_crop"
    /\ crop_in.crop_type = "Unknown"
    /\ crop_in.distance = 300
    /\ crop_out.optimization.adjusted_speed = 500
    /\ crop_out.optimization.recommended_stops = 2

(***************************************************************************)
(* The safety score as the weather worsens                                 *)
(***************************************************************************)

\* The provider reports an observation; rain and weather code are not read
\* by the score.
WorsenInit ==
    /\ RouteInit /\ RankIdle /\ CleanIdle /\ MapIdle /\ RoadIdle /\ CallersIdle /\ CropIdle /\ EvalIdle /\ AppIdle
    /\ observation \in {o \in Observations : o.rain = 5 /\ o.weather_code = 0}
    /\ scored = [called |-> FALSE, score |-> 0, before |-> <<>>]
    /\ risk = [called |-> FALSE, is_risky |-> FALSE]

WorsenNext ==
    \/ CalculateWeatherSafetyScore
    \/ WeatherWorsens

SpecWorsen == WorsenInit /\ [][WorsenNext]_vars

\* C20: raising the precipitation, the wind speed or the distance of the
\* temperature from the 10-30 degree band, the other two unchanged, never
\* raises the safety score.
C20_ScoreIsMonotone ==
    [][(/\ scored.called /\ scored'.called
        /\ \/ /\ observation'.precipitation > observation.precipitation
              /\ observation'.wind_speed = observation.wind_speed
              /\ observation'.temperature = observation.temperature
           \/ /\ observation'.wind_speed > observation.wind_speed
              /\ observation'.precipitation = observation.precipitation
              /\ observation'.temperature = observation.temperature
           \/ /\ (IF observation'.temperature < 10 THEN 10 - observation'.temperature
                  ELSE IF observation'.temperature > 30
                  THEN observation'.temperature - 30 ELSE 0)
                   > (IF observation.temperature < 10 THEN 10 - observation.temperature
                      ELSE IF observation.temperature > 30
                      THEN observation.temperature - 30 ELSE 0)
              /\ observation'.precipitation = observation.precipitation
              /\ observation'.wind_speed = observation.wind_speed)
       => scored'.score <= scored.score]_vars

\* C20 witness: the temperature moved from inside the band to below it and
\* the score fell.
C20_Witness ==
    /\ scored.called
    /\ scored.before # <<>>
    /\ observation.temperature < 10
    /\ observation.precipitation = 0
    /\ observation.wind_speed = 15
    /\ scored.before = <<100>>
    /\ scored.score < 100

(***************************************************************************)
(* Paths on the chain graph                                                *)
(***************************************************************************)

Reverse(seq) == [k \in 1 .. Len(seq) |-> seq[Len(seq) + 1 - k]]

\* C21: on the chain graph of N >= 2 waypoints, find_shortest_path(node_i,
\* node_j) returns the |i-j|+1 nodes from i to j in order with the sum of the
\* edge weights between them as cost, the query from j to i returns the
\* reversed path with the same cost, and for i = j the result is the single
\* node with cost 0.
C21_PartialTraversalBothWays ==
    (/\ last.op = "find_shortest_path" /\ N >= 2
     /\ last.start \in 0 .. N - 1 /\ last.end \in 0 .. N - 1)
        => LET i == last.start
               j == last.end
               back == find_shortest_path(graph, j, i)
           IN /\ last.raised = "none"
              /\ Len(last.path) = Abs(i - j) + 1
              /\ \A k \in 1 .. Len(last.path) :
                    last.path[k] = (IF i <= j THEN i + (k - 1) ELSE i - (k - 1))
              /\ last.cost = ChainSum(route_coords, IF i <= j THEN i ELSE j,
                                      IF i <= j THEN j ELSE i)
              /\ back.path = Reverse(last.path)
              /\ back.cost = last.cost
              /\ i = j => (last.path = <<i>> /\ last.cost = 0)

\* C21 witness: the query from the last to the first node of a three-waypoint
\* chain with two edges of positive weight.
C21_Witness ==
    /\ last.op = "find_shortest_path" /\ N = 3
    /\ last.start = 2 /\ last.end = 0
    /\ route_coords[1] # route_coords[2] /\ route_coords[2] # route_coords[3]
    /\ last.path = <<2, 1, 0>>
    /\ last.cost = 2

(***************************************************************************)
(* The safety score and the risk flag of one observation                   *)
(***************************************************************************)

\* C22: the safety score and the risk flag are independent signals.  An
\* observation whose only adverse entry is a fog, rain, snow or thunderstorm
\* code is risky with score 100; one that is calm but for wind of 16 to 40
\* km/h or a temperature outside 10 to 30 degrees is not risky with a score
\* below 100; a calm one is not risky with score 100.  So the flag is not a
\* function of the score, nor the score of the flag.
C22_ScoreAndFlagIndependent ==
    (scored.called /\ risk.called) =>
        LET o == observation
            calm_air == o.precipitation <= 2 /\ o.rain <= 5
            calm_code == ~RiskyCodeRange(o.weather_code) /\ o.weather_code < 95
            mild == o.wind_speed <= 15 /\ o.temperature \in 10 .. 30
        IN /\ (calm_air /\ mild /\ ~calm_code)
                => (risk.is_risky /\ scored.score = 100)
           /\ (calm_air /\ calm_code /\ ~mild /\ o.wind_speed <= 40)
                => (~risk.is_risky /\ scored.score < 100)
           /\ (calm_air /\ calm_code /\ mild)
                => (~risk.is_risky /\ scored.score = 100)

\* C22 witness: fog in otherwise calm and mild weather was scored 100 and
\* flagged risky.
C22_Witness ==
    /\ scored.called /\ risk.called
    /\ observation.weather_code = 45
    /\ observation.precipitation = 0 /\ observation.rain = 5
    /\ observation.wind_speed = 15 /\ observation.temperature = 10
    /\ scored.score = 100
    /\ risk.is_risky

(***************************************************************************)
(* WeatherService.evaluate_route_weather                                    *)
(***************************************************************************)

EvalSpecInit ==
    /\ RouteInit /\ WeatherIdle /\ RankIdle /\ CleanIdle /\ MapIdle /\ RoadIdle
    /\ CallersIdle /\ CropIdle /\ EvalInit /\ AppIdle

EvalNext == EvaluateRouteWeather \/ AnswerChanges

SpecEval == EvalSpecInit /\ [][EvalNext]_vars

\* The lookup did not yield a forecast: the request raised, the status was not
\* 200, or the body had no `current` object.
Failed(response) ==
    response.raised \/ response.status_code # 200 \/ response.current = <<>>

OptimalMessage == <<"Current route is optimal based on weather conditions.">>

\* C23: a lookup whose request fails yields the default safe observation
\* (25 degrees, no precipitation, wind 10, code 0, not risky); when all three
\* lookups of a route fail, the route is reported not risky with the 'route is
\* optimal' recommendation.
C23_FailedLookupIsDefault ==
    eval_out # <<>> =>
        LET r == eval_out[1]
            safe == [temperature |-> 25, precipitation |-> 0, rain |-> 0,
                     weather_code |-> 0, wind_speed |-> 10, is_risky |-> FALSE]
        IN /\ Failed(eval_in.start) => r.start_weather = safe
           /\ Failed(eval_in.end) => r.end_weather = safe
           /\ Failed(eval_in.mid) => r.mid_weather = safe
           /\ (Failed(eval_in.start) /\ Failed(eval_in.end) /\ Failed(eval_in.mid))
                => (~r.is_risky /\ r.recommendation = OptimalMessage
                    /\ r.worst_condition = safe)

\* C23 witness: the three lookups failed in the three ways, one of them with a
\* thunderstorm in the body of a 500 answer, and the route was reported optimal.
C23_Witness ==
    /\ eval_out # <<>>
    /\ eval_in.start.raised
    /\ ~eval_in.end.raised /\ eval_in.end.status_code = 500
    /\ eval_in.end.current # <<>> /\ eval_in.end.current[1].weathercode = 95
    /\ ~eval_in.mid.raised /\ eval_in.mid.status_code = 200 /\ eval_in.mid.current = <<>>
    /\ ~eval_out[1].is_risky
    /\ eval_out[1].recommendation = OptimalMessage

\* C24: the route is risky exactly when the observation at the start, the end
\* or the midpoint is; a risky route's worst condition is a risky one of the
\* three (the midpoint's before the end's before the start's); the
\* recommendation is the 'route is optimal' message exactly when the route is
\* not risky.
C24_RiskyIffAnyPointRisky ==
    eval_out # <<>> =>
        LET r == eval_out[1]
        IN /\ r.is_risky <=> (\/ r.start_weather.is_risky
                              \/ r.end_weather.is_risky
                              \/ r.mid_weather.is_risky)
           /\ r.is_risky =>
                /\ r.worst_condition.is_risky
                /\ r.worst_condition \in {r.start_weather, r.end_weather, r.mid_weather}
           /\ r.mid_weather.is_risky => r.worst_condition = r.mid_weather
           /\ (r.end_weather.is_risky /\ ~r.mid_weather.is_risky)
                => r.worst_condition = r.end_weather
           /\ (r.start_weather.is_risky /\ ~r.end_weather.is_risky
                  /\ ~r.mid_weather.is_risky)
                => r.worst_condition = r.start_weather
           /\ (r.recommendation = OptimalMessage) <=> ~r.is_risky

\* C24 witness: only the midpoint was risky (fog), between a start and an end
\* with forecasts that are not, and the alert names the fog.
C24_Witness ==
    /\ eval_out # <<>>
    /\ ~eval_out[1].start_weather.is_risky /\ eval_out[1].start_weather.weather_code = 1
    /\ ~eval_out[1].end_weather.is_risky /\ eval_out[1].end_weather.weather_code = 1
    /\ eval_out[1].mid_weather.is_risky /\ eval_out[1].mid_weather.weather_code = 45
    /\ eval_out[1].is_risky
    /\ eval_out[1].worst_condition = eval_out[1].mid_weather
    /\ eval_out[1].recommendation
          = <<"Weather Alert: ", "Foggy", " detected. Alternative route recommended for safety.">>

(***************************************************************************)
(* The session of app_new.py                                               *)
(***************************************************************************)

AppNext ==
    \/ SelectStart
    \/ SelectEnd
    \/ SelectCrop
    \/ CalculateRoute
    \/ SelectRoute
    \/ CheckWeatherAndReroute
    \/ ResetAll

SpecApp == Init /\ [][AppNext]_vars

\* C26: whenever route_calculated is true, selected_route_idx is an index of
\* all_routes and current_route is the route at that index.
C26_SelectionIsCurrentRoute ==
    session_state.route_calculated =>
        /\ session_state.selected_route_idx \in 0 .. Len(session_state.all_routes) - 1
        /\ session_state.current_route
              = <<session_state.all_routes[session_state.selected_route_idx + 1]>>

\* C26 witness: the second route of a calculation was selected, the weather
\* was checked afterwards, and the routes are still the calculated ones.
C26_Witness ==
    /\ session_state.route_calculated
    /\ last_action.op = "check_weather_and_reroute"
    /\ Len(session_state.all_routes) = 4
    /\ session_state.selected_route_idx = 2
    /\ session_state.current_route = <<session_state.all_routes[3]>>
    /\ session_state.map_counter = 2

RouteFields(session) ==
    <<session.all_routes, session.current_route, session.selected_route_idx,
      session.route_calculated, session.weather_checked, session.alternative_route>>

\* C28: calculate_route is all-or-nothing.  When the map service raises or
\* returns no routes, all_routes, current_route, selected_route_idx,
\* route_calculated, weather_checked and alternative_route keep their values;
\* when it returns routes, all_routes is that list, current_route its first
\* element, selected_route_idx 0, route_calculated true, and weather_checked
\* and alternative_route are cleared.
C28_CalculateRouteAllOrNothing ==
    [][last_action'.op = "calculate_route" =>
          IF last_action'.ok
          THEN /\ last_action'.routes # <<>>
               /\ session_state'.all_routes = last_action'.routes
               /\ session_state'.current_route = <<last_action'.routes[1]>>
               /\ session_state'.selected_route_idx = 0
               /\ session_state'.route_calculated
               /\ ~session_state'.weather_checked
               /\ session_state'.alternative_route = <<>>
          ELSE RouteFields(session_state') = RouteFields(session_state)]_vars

\* C28 witness: a calculation failed in a session that held two routes, the
\* second selected, a checked weather and an alternative route, and holds
\* them still.
C28_Witness ==
    /\ last_action.op = "calculate_route" /\ ~last_action.ok
    /\ session_state.route_calculated
    /\ Len(session_state.all_routes) = 2
    /\ session_state.selected_route_idx = 1
    /\ session_state.current_route = <<session_state.all_routes[2]>>
    /\ session_state.weather_checked
    /\ session_state.alternative_route # <<>>

\* C29: after reset_all, start_location, end_location, current_route and
\* alternative_route are None, route_calculated and weather_checked are
\* false, all_routes is empty and selected_route_idx is 0; crop_type and
\* quantity are as before.
C29_ResetAllClearsRoutes ==
    [][last_action'.op = "reset_all" =>
          /\ session_state'.start_location = <<>>
          /\ session_state'.end_location = <<>>
          /\ session_state'.current_route = <<>>
          /\ session_state'.alternative_route = <<>>
          /\ ~session_state'.route_calculated
          /\ ~session_state'.weather_checked
          /\ session_state'.all_routes = <<>>
          /\ session_state'.selected_route_idx = 0
          /\ session_state'.crop_type = session_state.crop_type
          /\ session_state'.quantity = session_state.quantity]_vars

(***************************************************************************)
(* app_clean.py: "Reroute Based on Weather"                                *)
(***************************************************************************)

\* C30: when the reroute action finds no weather risk factor for the first
\* route (favorable weather), the session's routes keep their order and only
\* gain the safety score and the weather.
C30_FavorableWeatherKeepsOrder ==
    [][sidebar' = "Weather conditions are favorable for travel!" =>
          /\ Len(session_routes') = Len(session_routes)
          /\ \A i \in DOMAIN session_routes :
                SameButScores(session_routes'[i], session_routes[i])]_vars

====
